---------------------------- MODULE Spec2Model ----------------------------
(***************************************************************************)
(* Model of the bible_love text pipeline:                                  *)
(*   tools/split_kjv_raw.py          locator scanner + segment accumulator *)
(*   tools/build_chapter_en_only.py  record emitter (EN-only dialect)      *)
(*   tools/verify_chapter.py         strict format validator               *)
(*   tools/verify/verify_chapter.py  gloss-checking validator              *)
(*   tools/source/kjv/make_kjv_66.py alternate raw-to-structured converter *)
(*                                                                         *)
(* Text is modelled character by character: a string is a sequence of      *)
(* one-character strings, offsets are 0-based as in Python.                *)
(***************************************************************************)
EXTENDS Integers, Sequences, FiniteSets, TLC

VARIABLES
    pc,         \* which program of the pipeline runs next
    line,       \* parse_raw: the raw line processed last
    nread,      \* parse_raw: number of raw lines consumed
    cur_key,    \* parse_raw: open locator <<chap, ver>> or None
    buf,        \* parse_raw: text accumulated for the open locator
    chapters,   \* parse_raw: {chapter: {verse: text}}
    segs,       \* history: the segments flush() was called on, in order
    kjv,        \* make_kjv_66 main: its locals, and the history of flush calls
    heads,      \* make_kjv_66 main: the book headings read so far
    scanLine,   \* scanner run: the line handed to the regex
    marks,      \* scanner run: the matches finditer reported
    wrapIn,     \* wrap run: the pieces of one verse's text
    wrapOut,    \* wrap run: what parse_raw returned for each layout
    rawFile,    \* pipeline run: the lines of the raw input file
    fs,         \* pipeline run: the files written, by path
    split,      \* pipeline run: how split_kjv_raw main ended
    build,      \* pipeline run: how build_chapter_en_only main ended
    doc,        \* the document handed to a validator
    verdict,    \* how the validator ended
    dupFound,   \* what check_consecutive_duplicate_gloss returned
    dialects,   \* dialect run: a validator's verdicts on both dialects
    gen,        \* how generate_chapter main ended
    batch,      \* batch_build_book main: its position and the commands it ran
    fill        \* fill_ko_with_openai main: its position, ko_map, its requests

vars == <<pc, line, nread, cur_key, buf, chapters, segs, kjv, heads,
          scanLine, marks, wrapIn, wrapOut, rawFile, fs, split, build, doc,
          verdict, dupFound, dialects, gen, batch, fill>>

\* the variables of the line-level runs, and those of the file-level runs
textVars == <<line, nread, cur_key, buf, chapters, segs, kjv, heads,
              scanLine, marks, wrapIn, wrapOut>>

fileVars == <<rawFile, fs, split, build, doc, verdict, dupFound, dialects, gen,
              batch, fill>>

\* the variables of the runs of generate_chapter, batch_build_book and
\* fill_ko_with_openai, and of the dialect run
driverVars == <<dialects, gen, batch, fill>>

\* Python None; an open locator is the pair <<chap, ver>>
None == <<>>

-----------------------------------------------------------------------------
(* Characters and Python string primitives                                 *)

Digits == {"0", "1", "2", "3", "4", "5", "6", "7", "8", "9"}

IsDigit(c) == c \in Digits

\* str.isspace / regex \s on the characters the model uses
IsSpace(c) == c \in {" ", "\t"}

\* s[i] with a 0-based offset
At(s, i) == s[i + 1]

\* s[a:b] with 0-based offsets
Slice(s, a, b) == SubSeq(s, a + 1, b)

\* the element of a one-element set; {e(x) : x \in {v}} computes v once
Only(S) == CHOOSE y \in S : TRUE

RECURSIVE Cat(_)
\* "".join(parts)
Cat(parts) == IF parts = <<>> THEN <<>> ELSE Head(parts) \o Cat(Tail(parts))

RECURSIVE lstrip(_)
lstrip(s) == IF s # <<>> /\ IsSpace(Head(s)) THEN lstrip(Tail(s)) ELSE s

RECURSIVE rstrip(_)
rstrip(s) ==
    IF s # <<>> /\ IsSpace(s[Len(s)]) THEN rstrip(SubSeq(s, 1, Len(s) - 1)) ELSE s

\* str.strip()
strip(s) == rstrip(lstrip(s))

RECURSIVE collapse_ws(_)
\* re.sub(r'\s+', ' ', s): every maximal whitespace run becomes one space
collapse_ws(s) ==
    IF s = <<>> THEN <<>>
    ELSE IF IsSpace(Head(s)) THEN <<" ">> \o collapse_ws(lstrip(s))
    ELSE <<Head(s)>> \o collapse_ws(Tail(s))

\* mutant: trims but leaves inner whitespace runs as they are
normalize_spaces_nocollapse(s) == strip(s)

normalize_spaces(s) == strip(collapse_ws(s))

DigitVal(c) ==
    CASE c = "0" -> 0 [] c = "1" -> 1 [] c = "2" -> 2 [] c = "3" -> 3
      [] c = "4" -> 4 [] c = "5" -> 5 [] c = "6" -> 6 [] c = "7" -> 7
      [] c = "8" -> 8 [] c = "9" -> 9

DigitChar(d) == CHOOSE c \in Digits : DigitVal(c) = d

RECURSIVE int(_)
\* int("007") = 7
int(ds) ==
    IF ds = <<>> THEN 0
    ELSE 10 * int(SubSeq(ds, 1, Len(ds) - 1)) + DigitVal(ds[Len(ds)])

\* sys.int_info.default_max_str_digits of the interpreter: int() of a longer
\* digit string raises ValueError
INT_MAX_STR_DIGITS == 4300

int_raises(ds) == Len(ds) > INT_MAX_STR_DIGITS

RECURSIVE str(_)
\* f"{n}" for n >= 0
str(n) == IF n < 10 THEN <<DigitChar(n)>> ELSE str(n \div 10) \o <<DigitChar(n % 10)>>

-----------------------------------------------------------------------------
(* Locator scanner: MARK_RE (split_kjv_raw) and CV_RE (make_kjv_66)        *)

\* the offsets at which a \d+ that starts at offset i can end
DigitEnds(s, i) ==
    {e \in (i + 1)..Len(s) : \A p \in i..(e - 1) : IsDigit(At(s, p))}

Max(S) == CHOOSE x \in S : \A y \in S : y <= x
Min(S) == CHOOSE x \in S : \A y \in S : x <= y

\* (?<!\d)
NotAfterDigit(s, i) == i = 0 \/ ~IsDigit(At(s, i - 1))

\* (?=\D|$)
LookaheadMark(s, k) == k = Len(s) \/ ~IsDigit(At(s, k))

\* (?!\d)
LookaheadCv(s, k) == ~(k < Len(s) /\ IsDigit(At(s, k)))

\* mutant: a lazy second group with no lookahead stops after one digit
VerseEnds_lazy(s, j, cv) == {Min(DigitEnds(s, j))}

\* where the second group (\d+) followed by the lookahead can end, from offset j
VerseEnds(s, j, cv) ==
    {k \in DigitEnds(s, j) : IF cv THEN LookaheadCv(s, k) ELSE LookaheadMark(s, k)}

\* the ends j of the first group such that ':' and a second group follow
ChapEnds(s, i, cv) ==
    {j \in DigitEnds(s, i) :
        /\ j < Len(s)
        /\ At(s, j) = ":"
        /\ VerseEnds(s, j + 1, cv) # {}}

\* the match the regex finds starting exactly at offset i, as a sequence of
\* zero or one match; both groups are greedy, so the longest alternatives
\* are tried first
MatchAt(s, i, cv) ==
    IF i < Len(s) /\ NotAfterDigit(s, i) /\ ChapEnds(s, i, cv) # {}
    THEN LET j == Max(ChapEnds(s, i, cv))
             k == Max(VerseEnds(s, j + 1, cv))
         IN  <<[start |-> i, end |-> k,
                g1 |-> Slice(s, i, j), g2 |-> Slice(s, j + 1, k)]>>
    ELSE <<>>

RECURSIVE finditer(_, _, _)
\* re.finditer: leftmost match from pos, then resume at its end
finditer(s, pos, cv) ==
    IF pos >= Len(s) THEN <<>>
    ELSE LET m == MatchAt(s, pos, cv)
         IN  IF m = <<>> THEN finditer(s, pos + 1, cv)
             ELSE m \o finditer(s, m[1].end, cv)

MARK_RE(s) == finditer(s, 0, FALSE)

CV_RE(s) == finditer(s, 0, TRUE)


-----------------------------------------------------------------------------
(* Segment accumulator: parse_raw of tools/split_kjv_raw.py                *)

\* a Python dict as a function; d[k] = v
DictSet(d, k, v) == [x \in DOMAIN d \cup {k} |-> IF x = k THEN v ELSE d[x]]

EmptyDict == <<>>

\* the accumulator's locals: chapters, cur_key, buf; segs is the history of
\* every open segment handed to flush, in call order
AccInit == [chapters |-> EmptyDict, cur_key |-> None, buf |-> <<>>, segs |-> <<>>]

\* mutant: a duplicate locator overwrites the earlier text
merge_text_overwrite(old, cleaned) == cleaned

\* chapters[chap][ver] + " " + cleaned, normalized
merge_text(old, cleaned) == normalize_spaces(old \o <<" ">> \o cleaned)

\* the verse map of the chapter after flushing `cleaned` for verse ver
flush_stored(verse_map, ver, cleaned) ==
    IF cleaned # <<>>
    THEN IF ver \in DOMAIN verse_map
         THEN DictSet(verse_map, ver, merge_text(verse_map[ver], cleaned))
         ELSE DictSet(verse_map, ver, cleaned)
    ELSE verse_map

\* flush(): store the open segment, then close it
flush(st) ==
    IF st.cur_key = None THEN st
    ELSE Only({[chapters |-> DictSet(withChap, st.cur_key[1],
                                     flush_stored(withChap[st.cur_key[1]],
                                                  st.cur_key[2], cleaned)),
                cur_key  |-> None,
                buf      |-> <<>>,
                segs     |-> Append(st.segs, [key |-> st.cur_key, text |-> st.buf])] :
                  withChap \in {IF st.cur_key[1] \in DOMAIN st.chapters THEN st.chapters
                                ELSE DictSet(st.chapters, st.cur_key[1], EmptyDict)},
                  cleaned \in {normalize_spaces(st.buf)}})

\* mutant: the continuation is glued to the buffer without the space
continuation_nospace(st, ln) ==
    IF st.cur_key # None THEN [st EXCEPT !.buf = @ \o strip(ln)] ELSE st

\* a line without markers: continuation of the open verse, else ignored
continuation(st, ln) ==
    IF st.cur_key # None THEN [st EXCEPT !.buf = @ \o <<" ">> \o strip(ln)]
    ELSE st

\* mutant: text before the first marker is thrown away
leading_text_dropped(st, ln, ms) == st

\* text before the first marker of a marker line goes to the open verse
leading_text(st, ln, ms) ==
    IF ms[1].start > 0 /\ st.cur_key # None
    THEN LET lead == strip(Slice(ln, 0, ms[1].start))
         IN  IF lead # <<>> THEN [st EXCEPT !.buf = @ \o <<" ">> \o lead] ELSE st
    ELSE st

\* mutant: the chunk of a marker runs to the end of the line
chunk_to_eol(ln, ms, i) == strip(Slice(ln, ms[i].end, Len(ln)))

\* the text between marker i and the next marker, or the end of the line
chunk(ln, ms, i) ==
    LET start == ms[i].end
        end   == IF i + 1 <= Len(ms) THEN ms[i + 1].start ELSE Len(ln)
    IN  strip(Slice(ln, start, end))

RECURSIVE marker_loop(_, _, _, _)
\* for i, m in enumerate(ms): flush(); cur_key = (chap, ver); buf = chunk
marker_loop(st, ln, ms, i) ==
    IF i > Len(ms) THEN st
    ELSE Only({marker_loop(opened, ln, ms, i + 1) :
                  opened \in {[flush(st) EXCEPT
                                  !.cur_key = <<int(ms[i].g1), int(ms[i].g2)>>,
                                  !.buf = chunk(ln, ms, i)]}})

\* one iteration of `for raw_line in text.splitlines()`
parse_line(st, ln) ==
    IF strip(ln) = <<>> THEN st
    ELSE Only({IF ms = <<>> THEN continuation(st, ln)
               ELSE Only({marker_loop(led, ln, ms, 1) :
                             led \in {leading_text(st, ln, ms)}}) :
                  ms \in {MARK_RE(ln)}})

RECURSIVE parse_lines(_, _)
parse_lines(st, lns) ==
    IF lns = <<>> THEN st
    ELSE Only({parse_lines(after, Tail(lns)) : after \in {parse_line(st, Head(lns))}})

\* parse_raw(text) for the text whose lines are lns; returns the locals at
\* `return chapters`
parse_raw(lns) == flush(parse_lines(AccInit, lns))

\* int(m.group(1)) or int(m.group(2)) raises for a marker of the line; only
\* a line longer than the limit can hold such a marker
parse_line_raises(ln) ==
    /\ Len(ln) > INT_MAX_STR_DIGITS
    /\ strip(ln) # <<>>
    /\ \E ms \in {MARK_RE(ln)} :
          \E i \in 1..Len(ms) : int_raises(ms[i].g1) \/ int_raises(ms[i].g2)

\* parse_raw(text) ends in an uncaught ValueError
parse_raw_raises(lns) == \E i \in 1..Len(lns) : parse_line_raises(lns[i])

-----------------------------------------------------------------------------
(* Alternate converter: tools/source/kjv/make_kjv_66.py                    *)

Letters ==
    {"a", "b", "c", "d", "e", "f", "g", "h", "i", "j", "k", "l", "m",
     "n", "o", "p", "q", "r", "s", "t", "u", "v", "w", "x", "y", "z",
     "A", "B", "C", "D", "E", "F", "G", "H", "I", "J", "K", "L", "M",
     "N", "O", "P", "Q", "R", "S", "T", "U", "V", "W", "X", "Y", "Z"}

IsLetter(c) == c \in Letters

\* regex \w
IsWordChar(c) == IsLetter(c) \/ IsDigit(c) \/ c = "_"

StartsWith(s, prefix) ==
    Len(s) >= Len(prefix) /\ SubSeq(s, 1, Len(prefix)) = prefix

Head_Ezra == <<"E", "z", "r", "a">>

Head_Joel == <<"J", "o", "e", "l">>

Head_Kings1 ==
    <<"T", "h", "e", " ", "F", "i", "r", "s", "t", " ", "B", "o", "o",
      "k", " ", "o", "f", " ", "t", "h", "e", " ", "K", "i", "n", "g",
      "s">>

Head_Kings3 ==
    <<"T", "h", "e", " ", "T", "h", "i", "r", "d", " ", "B", "o", "o",
      "k", " ", "o", "f", " ", "t", "h", "e", " ", "K", "i", "n", "g",
      "s">>

\* the entries of BOOKMAP the model's inputs can name
BOOKMAP ==
    (Head_Ezra :> <<"e", "z", "r">>) @@ (Head_Joel :> <<"j", "o", "l">>) @@
    (Head_Kings1 :> <<"1", "k", "i">>) @@ (Head_Kings3 :> <<"1", "k", "i">>)

Alias_OtherwiseCalled ==
    <<"O", "t", "h", "e", "r", "w", "i", "s", "e", " ",
      "C", "a", "l", "l", "e", "d", ":">>

\* alias headings skipped inside Samuel/Kings: of the two Kings literals
\* the first, which is a key of BOOKMAP too
AliasHeadings == {Alias_OtherwiseCalled, Head_Kings1}

Word_CHAPTER == <<"C", "H", "A", "P", "T", "E", "R">>

Word_Chapter == <<"C", "h", "a", "p", "t", "e", "r">>

\* IGNORE_RE.match(line): ^(CHAPTER|Chapter)\b
IGNORE_RE(ln) ==
    /\ StartsWith(ln, Word_CHAPTER) \/ StartsWith(ln, Word_Chapter)
    /\ Len(ln) = 7 \/ ~IsWordChar(ln[8])

\* " ".join(parts)
JoinParts(parts) ==
    Cat([i \in 1..Len(parts) |-> IF i = 1 THEN parts[i] ELSE <<" ">> \o parts[i]])

normalize_space(s) == strip(collapse_ws(s))

\* f"{book}\t{chap}:{verse}\t{text}"
kjv_out_line(book, chap, verse, text) ==
    book \o <<"\t">> \o str(chap) \o <<":">> \o str(verse) \o <<"\t">> \o text

\* an Optional[int] that is set: cur_chap and cur_verse are None or Some(n)
Some(n) == <<n>>

KjvInit ==
    [current_book |-> None, cur_chap |-> None, cur_verse |-> None,
     cur_parts |-> <<>>, seen |-> {}, out |-> <<>>, flushed |-> <<>>]

\* mutant: a locator already seen is written again
kjv_flush_unseen(st) ==
    IF st.current_book = None \/ st.cur_chap = None \/ st.cur_verse = None THEN st
    ELSE LET text == normalize_space(JoinParts(st.cur_parts))
             logged == [st EXCEPT !.flushed =
                           Append(@, [book |-> st.current_book, chap |-> st.cur_chap[1],
                                      verse |-> st.cur_verse[1], parts |-> st.cur_parts])]
         IN  IF text = <<>> THEN logged
             ELSE [logged EXCEPT
                      !.seen = @ \cup {<<st.current_book, st.cur_chap[1], st.cur_verse[1]>>},
                      !.out = Append(@, kjv_out_line(st.current_book, st.cur_chap[1],
                                                     st.cur_verse[1], text))]

\* flush(out, seen, book, chap, verse, parts); flushed records every call
\* made with a verse open
kjv_flush(st) ==
    IF st.current_book = None \/ st.cur_chap = None \/ st.cur_verse = None THEN st
    ELSE LET text == normalize_space(JoinParts(st.cur_parts))
             key  == <<st.current_book, st.cur_chap[1], st.cur_verse[1]>>
             logged == [st EXCEPT !.flushed =
                           Append(@, [book |-> st.current_book, chap |-> st.cur_chap[1],
                                      verse |-> st.cur_verse[1], parts |-> st.cur_parts])]
         IN  IF text = <<>> THEN logged
             ELSE IF key \in st.seen THEN logged
             ELSE [logged EXCEPT
                      !.seen = @ \cup {key},
                      !.out = Append(@, kjv_out_line(st.current_book, st.cur_chap[1],
                                                     st.cur_verse[1], text))]

\* a book heading: flush under the previous book, then no verse is open
kjv_heading(st, ln) ==
    [kjv_flush(st) EXCEPT !.current_book = BOOKMAP[ln], !.cur_chap = None,
                          !.cur_verse = None, !.cur_parts = <<>>]

\* a line without markers
kjv_continuation(st, ln) ==
    IF st.cur_chap # None /\ st.cur_verse # None
    THEN [st EXCEPT !.cur_parts = Append(@, ln)]
    ELSE st

\* mutant: the text before the first marker is given to nobody
kjv_prefix_dropped(st, ln, ms) == st

\* text before the first marker continues the current verse
kjv_prefix(st, ln, ms) ==
    LET prefix == strip(Slice(ln, 0, ms[1].start))
    IN  IF prefix # <<>> /\ st.cur_chap # None /\ st.cur_verse # None
        THEN [st EXCEPT !.cur_parts = Append(@, prefix)]
        ELSE st

\* seg_text of marker idx
kjv_seg_text(ln, ms, idx) ==
    LET seg_start == ms[idx].end
        seg_end   == IF idx + 1 <= Len(ms) THEN ms[idx + 1].start ELSE Len(ln)
    IN  strip(Slice(ln, seg_start, seg_end))

RECURSIVE kjv_marker_loop(_, _, _, _)
kjv_marker_loop(st, ln, ms, idx) ==
    IF idx > Len(ms) THEN st
    ELSE kjv_marker_loop(
             [kjv_flush(st) EXCEPT
                 !.cur_chap = Some(int(ms[idx].g1)),
                 !.cur_verse = Some(int(ms[idx].g2)),
                 !.cur_parts = IF kjv_seg_text(ln, ms, idx) # <<>>
                               THEN <<kjv_seg_text(ln, ms, idx)>> ELSE <<>>],
             ln, ms, idx + 1)

\* one iteration of `for raw in f`
kjv_line(st, raw) ==
    LET ln == strip(raw)
    IN  IF ln = <<>> THEN st
        ELSE IF ln \in AliasHeadings THEN st
        ELSE IF IGNORE_RE(ln) THEN st
        ELSE IF ln \in DOMAIN BOOKMAP THEN kjv_heading(st, ln)
        ELSE IF st.current_book = None THEN st
        ELSE IF CV_RE(ln) = <<>> THEN kjv_continuation(st, ln)
        ELSE kjv_marker_loop(kjv_prefix(st, ln, CV_RE(ln)), ln, CV_RE(ln), 1)

-----------------------------------------------------------------------------
(* Scanner run: one line is handed to MARK_RE.finditer or CV_RE.finditer   *)

MaxScanLen == 5

ScanAlphabet == {"1", "2", ":", "a", " "}

Line_1234_5678 == <<"1", "2", "3", "4", ":", "5", "6", "7", "8">>

Line_12_345_digit == <<"x", "1", "2", ":", "3", "4", "5", "6", " ", "7">>

ScanLines ==
    UNION {[1..n -> ScanAlphabet] : n \in 0..MaxScanLen}
        \cup {Line_1234_5678, Line_12_345_digit}

\* no scan made yet
NoMarks == [re |-> "none", ms |-> <<>>]

ParseIdle ==
    /\ kjv = KjvInit
    /\ heads = {}
    /\ line = <<>>
    /\ nread = 0
    /\ cur_key = None
    /\ buf = <<>>
    /\ chapters = <<>>
    /\ segs = <<>>

\* no wrap run
WrapIdle ==
    /\ wrapIn = <<>>
    /\ wrapOut = <<>>

\* generate_chapter has not run
NoGen == [exit |-> -1, out |-> <<>>, bookcode |-> <<>>, chapter |-> 0]

\* batch_build_book has not run
NoBatch ==
    [pc |-> "idle", bookcode |-> <<>>, start |-> 0, end |-> 0, chap |-> 0,
     exit |-> -1, out |-> <<>>, ran |-> <<>>]

\* fill_ko_with_openai has not run
NoFill ==
    [at |-> "idle", bookcode |-> <<>>, chapter |-> 0, verses |-> <<>>, ko_map |-> <<>>,
     requests |-> <<>>, exit |-> -1, out |-> <<>>]

\* no run of generate_chapter, batch_build_book or fill_ko_with_openai, no
\* dialect run
DriversIdle ==
    /\ dialects = <<>>
    /\ gen = NoGen
    /\ batch = NoBatch
    /\ fill = NoFill

\* no file-level run
FileIdle ==
    /\ rawFile = <<>>
    /\ fs = <<>>
    /\ split = [exit |-> -1, out |-> <<>>]
    /\ build = [exit |-> -1, out |-> <<>>, bookcode |-> <<>>, chapter |-> 0]
    /\ doc = <<>>
    /\ verdict = [tool |-> "none", exit |-> 0, out |-> <<>>, count |-> 0]
    /\ dupFound = <<>>
    /\ DriversIdle

InitScan ==
    /\ pc = "scan"
    /\ ParseIdle
    /\ WrapIdle
    /\ scanLine \in ScanLines
    /\ marks = NoMarks
    /\ FileIdle

ScanMark ==
    /\ pc = "scan"
    /\ marks = NoMarks
    /\ marks' = [re |-> "MARK_RE", ms |-> MARK_RE(scanLine)]
    /\ UNCHANGED <<pc, line, nread, cur_key, buf, chapters, segs, kjv, heads, scanLine,
                 wrapIn, wrapOut,
                   fileVars>>

ScanCv ==
    /\ pc = "scan"
    /\ marks = NoMarks
    /\ marks' = [re |-> "CV_RE", ms |-> CV_RE(scanLine)]
    /\ UNCHANGED <<pc, line, nread, cur_key, buf, chapters, segs, kjv, heads, scanLine,
                 wrapIn, wrapOut,
                   fileVars>>

NextScan == ScanMark \/ ScanCv

SpecScan == InitScan /\ [][NextScan]_vars

\* t reads digits, one colon, digits
IsLocatorText(t) ==
    \E c \in 2..(Len(t) - 1) :
        /\ t[c] = ":"
        /\ \A p \in 1..Len(t) : p # c => IsDigit(t[p])

-----------------------------------------------------------------------------
(* Pipeline run: raw lines are fed to parse_raw one by one                 *)

MaxLines == 2

Tok_1_1 == <<"1", ":", "1">>

Tok_1_2 == <<"1", ":", "2">>

RawTokens == {Tok_1_1, Tok_1_2, <<"a">>, <<" ">>}

\* raw lines: up to three tokens written one after the other
RawLines ==
    {t1 \o t2 \o t3 : t1 \in RawTokens \cup {<<>>},
                      t2 \in RawTokens \cup {<<>>},
                      t3 \in RawTokens \cup {<<>>}}

Acc == [chapters |-> chapters, cur_key |-> cur_key, buf |-> buf, segs |-> segs]

SetAcc(st) ==
    /\ chapters' = st.chapters
    /\ cur_key' = st.cur_key
    /\ buf' = st.buf
    /\ segs' = st.segs

MaxKjvLines == 2

Line_CHAPTER_1 == Word_CHAPTER \o <<" ", "1">>

Line_1_1_b == Tok_1_1 \o <<"b">>

\* lines for make_kjv_66 that are not book headings
KjvLines ==
    {t1 \o t2 : t1 \in RawTokens \cup {<<>>}, t2 \in RawTokens \cup {<<>>}}
        \cup {Line_CHAPTER_1, Alias_OtherwiseCalled, Line_1_1_b}

\* the run is either split_kjv_raw's parse_raw or make_kjv_66's main
Init ==
    /\ pc \in {"parse", "kjv"}
    /\ ParseIdle
    /\ scanLine = <<>>
    /\ marks = NoMarks
    /\ WrapIdle
    /\ FileIdle

\* the loop body of parse_raw on the next raw line
ParseLine ==
    /\ pc = "parse"
    /\ nread < MaxLines
    /\ \E ln \in RawLines :
        /\ line' = ln
        /\ IF parse_line_raises(ln)
           THEN pc' = "raised" /\ SetAcc(Acc)
           ELSE pc' = pc /\ SetAcc(parse_line(Acc, ln))
    /\ nread' = nread + 1
    /\ UNCHANGED <<kjv, heads, scanLine, marks, wrapIn, wrapOut,
                   fileVars>>

\* end of input: the final flush() and `return chapters`
EndOfInput ==
    /\ pc = "parse"
    /\ SetAcc(flush(Acc))
    /\ pc' = "parsed"
    /\ UNCHANGED <<line, nread, kjv, heads, scanLine, marks, wrapIn, wrapOut,
                   fileVars>>

\* the book headings of the source file
KjvHeads == {Head_Ezra, Head_Joel}

\* the loop body of make_kjv_66 main on the next line of the source file;
\* the source names each book heading at most once
KjvLine ==
    /\ pc = "kjv"
    /\ \E ln \in KjvLines \cup KjvHeads :
        /\ IF ln \in KjvHeads
           THEN /\ ln \notin heads
                /\ heads' = heads \cup {ln}
                /\ nread' = nread
           ELSE /\ nread < MaxKjvLines
                /\ nread' = nread + 1
                /\ heads' = heads
        /\ line' = ln
        /\ kjv' = kjv_line(kjv, ln)
    /\ UNCHANGED <<pc, cur_key, buf, chapters, segs, scanLine, marks, wrapIn, wrapOut,
                   fileVars>>

\* end of the source file: the final flush; dst is written from out
KjvEnd ==
    /\ pc = "kjv"
    /\ kjv' = kjv_flush(kjv)
    /\ pc' = "kjv_done"
    /\ UNCHANGED <<line, nread, heads, cur_key, buf, chapters, segs, scanLine, marks,
                   wrapIn, wrapOut,
                   fileVars>>

Next == ParseLine \/ EndOfInput \/ KjvLine \/ KjvEnd

Spec == Init /\ [][Next]_vars

-----------------------------------------------------------------------------
(* Claims about the accumulator                                            *)

RECURSIVE NonSpace(_)
\* the characters of s that are not whitespace, in order
NonSpace(s) ==
    IF s = <<>> THEN <<>>
    ELSE IF IsSpace(Head(s)) THEN NonSpace(Tail(s))
    ELSE <<Head(s)>> \o NonSpace(Tail(s))

\* the locators that have a record in chs
KeysOf(chs) == UNION {{<<c, v>> : v \in DOMAIN chs[c]} : c \in DOMAIN chs}

RECURSIVE SegTexts(_, _)
\* the non-empty normalized texts of the segments flushed for locator k,
\* in flush order
SegTexts(sg, k) ==
    IF sg = <<>> THEN <<>>
    ELSE LET t == normalize_spaces(Head(sg).text)
         IN  (IF Head(sg).key = k /\ t # <<>> THEN <<t>> ELSE <<>>)
                 \o SegTexts(Tail(sg), k)

RECURSIVE JoinSpace(_)
\* " ".join(ts)
JoinSpace(ts) ==
    IF ts = <<>> THEN <<>>
    ELSE IF Len(ts) = 1 THEN ts[1]
    ELSE ts[1] \o <<" ">> \o JoinSpace(Tail(ts))

SegKeys(sg) == {sg[n].key : n \in 1..Len(sg)}

\* C6: a locator flushed several times ends with the texts of all its
\* flushes, earlier before later, joined by single spaces; no segment with
\* text is overwritten or dropped.
C6_DuplicateLocatorMerge ==
    pc \in {"parse", "parsed"} =>
        /\ \A k \in SegKeys(segs) :
              SegTexts(segs, k) # <<>> =>
                  /\ k \in KeysOf(chapters)
                  /\ chapters[k[1]][k[2]] = JoinSpace(SegTexts(segs, k))
        /\ \A k \in KeysOf(chapters) : SegTexts(segs, k) # <<>>

\* a run ended in which one locator was flushed twice with text
C6_Witness ==
    /\ pc = "parsed"
    /\ \E k \in KeysOf(chapters) :
        /\ Len(SegTexts(segs, k)) >= 2
        /\ chapters[k[1]][k[2]] =
               SegTexts(segs, k)[1] \o <<" ">> \o SegTexts(segs, k)[2]

\* the locator a marker match names
Locator(m) == <<int(m.g1), int(m.g2)>>

\* the locator that owns offset p of line ln: the last marker ending at or
\* before p, the verse open before the line for text ahead of the first
\* marker, and nobody for the characters of a marker itself
Owner(ln, ms, open, p) ==
    IF \E i \in 1..Len(ms) : ms[i].start <= p /\ p < ms[i].end THEN None
    ELSE LET before == {i \in 1..Len(ms) : ms[i].end <= p}
         IN  IF before = {} THEN open ELSE Locator(ms[Max(before)])

RECURSIVE Contribution(_, _, _, _, _)
\* the non-blank characters of ln, from offset p on, that locator k owns
Contribution(ln, ms, open, k, p) ==
    IF p >= Len(ln) THEN <<>>
    ELSE (IF Owner(ln, ms, open, p) = k /\ ~IsSpace(At(ln, p))
          THEN <<At(ln, p)>> ELSE <<>>)
             \o Contribution(ln, ms, open, k, p + 1)

\* the non-blank characters held for locator k: its record, then the open buffer
KeyText(chs, ck, bf, k) ==
    (IF k \in KeysOf(chs) THEN NonSpace(chs[k[1]][k[2]]) ELSE <<>>)
        \o (IF ck = k THEN NonSpace(bf) ELSE <<>>)

LineKeys(ms) == {Locator(ms[i]) : i \in 1..Len(ms)}

\* C8: on a line with markers each marker opens its own segment holding the
\* (trimmed) text between it and the next marker or the end of the line, and
\* over the run every non-blank character outside the markers that follows
\* the first marker is held exactly once, in input order, by the locator of
\* the marker before it.
C8_PartitionLossless ==
    [][/\ (pc = "parse" /\ nread' = nread + 1) =>
            \A ms \in {MARK_RE(line')} :
                /\ \A k \in (KeysOf(chapters) \cup KeysOf(chapters')
                               \cup LineKeys(ms) \cup {cur_key, cur_key'}) \ {None} :
                       KeyText(chapters', cur_key', buf', k) =
                           KeyText(chapters, cur_key, buf, k)
                               \o Contribution(line', ms, cur_key, k, 0)
                /\ (ms # <<>> /\ strip(line') # <<>>) =>
                       /\ Len(segs') = Len(segs) + (Len(ms) - 1)
                                         + (IF cur_key # None THEN 1 ELSE 0)
                       /\ \A i \in 1..(Len(ms) - 1) :
                              segs'[Len(segs') - (Len(ms) - 1) + i] =
                                  [key  |-> Locator(ms[i]),
                                   text |-> strip(Slice(line', ms[i].end, ms[i + 1].start))]
                       /\ cur_key' = Locator(ms[Len(ms)])
                       /\ buf' = strip(Slice(line', ms[Len(ms)].end, Len(line')))
       /\ (pc = "parse" /\ pc' = "parsed") =>
            \A k \in (KeysOf(chapters) \cup KeysOf(chapters') \cup {cur_key}) \ {None} :
                KeyText(chapters', cur_key', buf', k) = KeyText(chapters, cur_key, buf, k)
      ]_vars

\* a line with two markers and text after each was read and both records exist
C8_Witness ==
    /\ pc = "parsed"
    /\ line = Tok_1_1 \o <<"a">> \o Tok_1_2
    /\ <<1, 1>> \in KeysOf(chapters)
    /\ <<1, 2>> \in KeysOf(chapters)

\* the segment the first marker of the line opened in split_kjv_raw: still
\* open after a one-marker line, else flushed when the second marker came
FirstOpened(ms) ==
    IF Len(ms) = 1 THEN [key |-> cur_key', text |-> buf']
    ELSE segs'[Len(segs') - (Len(ms) - 1) + 1]

\* the same for make_kjv_66
KjvFirstOpened(ms) ==
    IF Len(ms) = 1
    THEN [chap |-> kjv'.cur_chap[1], verse |-> kjv'.cur_verse[1],
          parts |-> kjv'.cur_parts]
    ELSE LET f == kjv'.flushed[Len(kjv'.flushed) - (Len(ms) - 1) + 1]
         IN  [chap |-> f.chap, verse |-> f.verse, parts |-> f.parts]

\* make_kjv_66 treats the line as a verse line
KjvVerseLine(ln) ==
    /\ ln # <<>>
    /\ ln \notin AliasHeadings
    /\ ~IGNORE_RE(ln)
    /\ ln \notin DOMAIN BOOKMAP
    /\ kjv.current_book # None
    /\ CV_RE(ln) # <<>>

\* C10: on a marker line whose first marker is not at column 0, the text
\* before it is appended to the buffer of the verse open before the line and
\* flushed with it, and is no part of the segment the first marker opens;
\* with no verse open it is discarded. Both converters do so.
C10_LeadingText ==
    [][/\ (/\ pc = "parse"
           /\ nread' = nread + 1
           /\ strip(line') # <<>>
           /\ MARK_RE(line') # <<>>
           /\ MARK_RE(line')[1].start > 0) =>
              \A ms \in {MARK_RE(line')} :
              \A lead \in {strip(Slice(line', 0, ms[1].start))} :
                /\ FirstOpened(ms).key = Locator(ms[1])
                /\ FirstOpened(ms).text =
                       strip(Slice(line', ms[1].end,
                                   IF Len(ms) = 1 THEN Len(line') ELSE ms[2].start))
                /\ IF cur_key # None
                   THEN /\ Len(segs') = Len(segs) + Len(ms)
                        /\ segs'[Len(segs) + 1] =
                               [key  |-> cur_key,
                                text |-> IF lead # <<>> THEN buf \o <<" ">> \o lead
                                         ELSE buf]
                   ELSE Len(segs') = Len(segs) + (Len(ms) - 1)
       /\ (/\ pc = "kjv"
           /\ nread' = nread + 1
           /\ KjvVerseLine(strip(line'))
           /\ CV_RE(strip(line'))[1].start > 0) =>
              \A ln \in {strip(line')} :
              \A ms \in {CV_RE(ln)} :
              \A prefix \in {strip(Slice(ln, 0, ms[1].start))} :
                /\ KjvFirstOpened(ms).chap = int(ms[1].g1)
                /\ KjvFirstOpened(ms).verse = int(ms[1].g2)
                /\ JoinParts(KjvFirstOpened(ms).parts) =
                       strip(Slice(ln, ms[1].end,
                                   IF Len(ms) = 1 THEN Len(ln) ELSE ms[2].start))
                /\ IF kjv.cur_chap # None /\ kjv.cur_verse # None
                   THEN /\ Len(kjv'.flushed) = Len(kjv.flushed) + Len(ms)
                        /\ kjv'.flushed[Len(kjv.flushed) + 1] =
                               [book  |-> kjv.current_book,
                                chap  |-> kjv.cur_chap[1],
                                verse |-> kjv.cur_verse[1],
                                parts |-> IF prefix # <<>>
                                          THEN Append(kjv.cur_parts, prefix)
                                          ELSE kjv.cur_parts]
                   ELSE Len(kjv'.flushed) = Len(kjv.flushed) + (Len(ms) - 1)
      ]_vars

\* a marker line with leading text was read while a verse was open, and the
\* leading text ended up in that verse's record
C10_Witness ==
    /\ pc = "parsed"
    /\ nread = 2
    /\ line = <<"a">> \o Tok_1_2 \o <<"a">>
    /\ <<1, 1>> \in KeysOf(chapters)
    /\ chapters[1][1] = <<"a", " ", "a">>
    /\ chapters[1][2] = <<"a">>

\* C17: a flush of segments whose text normalizes to the empty string
\* leaves the map of parse_raw as it was, and the map never holds a verse
\* with empty text nor a chapter without verses.
C17_EmptyFlushDropped ==
    [][pc = "parse" =>
          /\ (\A n \in (Len(segs) + 1)..Len(segs') :
                  normalize_spaces(segs'[n].text) = <<>>) => chapters' = chapters
          /\ \A c \in DOMAIN chapters' :
                /\ DOMAIN chapters'[c] # {}
                /\ \A v \in DOMAIN chapters'[c] : chapters'[c][v] # <<>>
      ]_vars

RECURSIVE KjvTexts(_, _)
\* the non-empty normalized texts make_kjv_66 flushed for locator k =
\* <<book, chap, verse>>, in flush order
KjvTexts(fl, k) ==
    IF fl = <<>> THEN <<>>
    ELSE LET t == normalize_space(JoinParts(Head(fl).parts))
         IN  (IF <<Head(fl).book, Head(fl).chap, Head(fl).verse>> = k /\ t # <<>>
              THEN <<t>> ELSE <<>>)
                 \o KjvTexts(Tail(fl), k)

KjvKeys(fl) == {<<fl[n].book, fl[n].chap, fl[n].verse>> : n \in 1..Len(fl)}

\* the lines of out that carry locator k
KjvOutLines(out, k) ==
    SelectSeq(out, LAMBDA ln :
        StartsWith(ln, k[1] \o <<"\t">> \o str(k[2]) \o <<":">> \o str(k[3]) \o <<"\t">>))

-----------------------------------------------------------------------------
(* Wrap run: parse_raw on one verse laid out on one line and wrapped       *)

MaxPieces == 3

WrapAlphabet == {"a", "b", " "}

\* the pieces a verse's text is wrapped into: marker-less lines, blank or not
WrapPieces == UNION {[1..n -> WrapAlphabet] : n \in 0..2}

\* the verse 1:1 with the pieces on one line, separated by single spaces
OneLine(ps) == <<Tok_1_1 \o <<" ">> \o JoinParts(ps)>>

\* the same verse with every piece after the first on a line of its own
Wrapped(ps) == <<Tok_1_1 \o <<" ">> \o ps[1]>> \o Tail(ps)

InitWrap ==
    /\ pc = "wrap"
    /\ ParseIdle
    /\ scanLine = <<>>
    /\ marks = NoMarks
    /\ wrapIn \in UNION {[1..n -> WrapPieces] : n \in 1..MaxPieces}
    /\ wrapOut = <<>>
    /\ FileIdle

\* parse_raw on the one-line layout and on the wrapped layout
WrapParse ==
    /\ pc = "wrap"
    /\ wrapOut = <<>>
    /\ wrapOut' = <<[oneLine |-> parse_raw(OneLine(wrapIn)).chapters,
                     wrapped |-> parse_raw(Wrapped(wrapIn)).chapters]>>
    /\ pc' = "wrapped"
    /\ UNCHANGED <<line, nread, cur_key, buf, chapters, segs, kjv, heads,
                   scanLine, marks, wrapIn,
                   fileVars>>

\* parse_raw on the wrapped layout with a marker-less line ahead of it
WrapParseHeaded ==
    /\ pc = "wrap"
    /\ wrapOut = <<>>
    /\ wrapOut' = <<[oneLine |-> parse_raw(OneLine(wrapIn)).chapters,
                     wrapped |-> parse_raw(<<wrapIn[1]>> \o Wrapped(wrapIn)).chapters]>>
    /\ pc' = "headed"
    /\ UNCHANGED <<line, nread, cur_key, buf, chapters, segs, kjv, heads,
                   scanLine, marks, wrapIn,
                   fileVars>>

NextWrap == WrapParse \/ WrapParseHeaded

SpecWrap == InitWrap /\ [][NextWrap]_vars

\* C7: marker-less lines after a marker are appended to the open verse, so a
\* verse wrapped over several lines gives the record its one-line layout
\* gives (the pieces in order, whitespace-normalized); a marker-less line
\* ahead of the first marker is discarded and changes nothing.
C7_WrapMerge ==
    wrapOut # <<>> =>
        /\ wrapOut[1].wrapped = wrapOut[1].oneLine
        /\ \A text \in {normalize_spaces(JoinParts(wrapIn))} :
               /\ DOMAIN wrapOut[1].wrapped = {1}
               /\ IF text = <<>> THEN DOMAIN wrapOut[1].wrapped[1] = {}
                  ELSE /\ DOMAIN wrapOut[1].wrapped[1] = {1}
                       /\ wrapOut[1].wrapped[1][1] = text

\* a verse wrapped over three non-blank lines behind a discarded heading line
\* came out as one record
C7_Witness ==
    /\ pc = "headed"
    /\ Len(wrapIn) = 3
    /\ \A i \in 1..3 : strip(wrapIn[i]) # <<>>
    /\ wrapOut[1].wrapped = (1 :> (1 :> normalize_spaces(JoinParts(wrapIn))))

-----------------------------------------------------------------------------
(* Canonical documents and the two validators:                             *)
(*   tools/verify_chapter.py         (g = FALSE in the regex operators)    *)
(*   tools/verify/verify_chapter.py  (g = TRUE)                            *)
(* A file is the sequence of the lines str.splitlines gives for it.        *)

Lit_BOOK == <<"#", "B", "O", "O", "K", "=">>

Lit_BOOKCODE == <<"|", "B", "O", "O", "K", "C", "O", "D", "E", "=">>

Lit_CHAPTER == <<"|", "C", "H", "A", "P", "T", "E", "R", "=">>

Lit_HeaderTail ==
    <<"|", "V", "E", "R", "S", "I", "O", "N", "=", "K", "J", "V", "|",
      "L", "A", "N", "G", "P", "A", "I", "R", "=", "E", "N", "-", "K",
      "O", "|", "A", "R", "C", "H", "A", "I", "C", "=", "I", "N", "L",
      "I", "N", "E", "_", "P", "A", "R", "E", "N", "S">>

Lit_T_EN == <<"T", "|", "E", "N", "=">>

Lit_V_N == <<"V", "|", "N", "=">>

Lit_EN == <<"|", "E", "N", "=">>

Lit_KO == <<"|", "K", "O", "=">>

LowerLetters == <<"a", "b", "c", "d", "e", "f", "g", "h", "i", "j", "k", "l", "m",
      "n", "o", "p", "q", "r", "s", "t", "u", "v", "w", "x", "y", "z">>

UpperLetters == <<"A", "B", "C", "D", "E", "F", "G", "H", "I", "J", "K", "L", "M",
      "N", "O", "P", "Q", "R", "S", "T", "U", "V", "W", "X", "Y", "Z">>

\* str.lower on one character
LowerChar(c) ==
    IF \E i \in 1..26 : UpperLetters[i] = c
    THEN LowerLetters[CHOOSE i \in 1..26 : UpperLetters[i] = c]
    ELSE c

\* str.lower
lower(s) == [i \in 1..Len(s) |-> LowerChar(s[i])]

\* s[a:b] with the offsets clamped to the string, as Python slices do
Clamp(s, a, b) ==
    SubSeq(s, (IF a > Len(s) THEN Len(s) ELSE a) + 1, IF b > Len(s) THEN Len(s) ELSE b)

\* s.find(sub, from): the lowest offset of sub at or after from, or -1
Find(s, sub, from) ==
    LET S == {i \in from..(Len(s) - Len(sub)) : Slice(s, i, i + Len(sub)) = sub}
    IN  IF S = {} THEN -1 ELSE Min(S)

\* sub in s
Contains(s, sub) == Find(s, sub, 0) # -1

\* s.count(c) for a character c
Count(s, c) == Cardinality({i \in 1..Len(s) : s[i] = c})

\* line.strip() == ""
IsBlank(ln) == strip(ln) = <<>>

RECURSIVE sorted(_)
\* sorted(S) for a set of integers
sorted(S) == IF S = {} THEN <<>> ELSE <<Min(S)>> \o sorted(S \ {Min(S)})

\* the offset of the first '|' at or after offset i, or len(s): where a
\* [^|]+ that starts at i stops
FieldEnd(s, i) ==
    LET S == {p \in i..(Len(s) - 1) : At(s, p) = "|"}
    IN  IF S = {} THEN Len(s) ELSE Min(S)

\* [a-z0-9_]
IsCodeChar(c) == (\E i \in 1..26 : LowerLetters[i] = c) \/ IsDigit(c) \/ c = "_"

\* HEADER_RE.match(line), as zero or one match. The groups cannot cross a
\* '|', so each ends at the next '|'; the book code is [a-z0-9_]+ in the
\* strict validator and [^|]+ in the gloss validator.
HEADER_RE(ln, g) ==
    IF ~StartsWith(ln, Lit_BOOK) THEN <<>>
    ELSE LET p1 == FieldEnd(ln, Len(Lit_BOOK))
             c0 == p1 + Len(Lit_BOOKCODE)
             p2 == FieldEnd(ln, c0)
             d0 == p2 + Len(Lit_CHAPTER)
             p3 == FieldEnd(ln, d0)
         IN  IF /\ p1 > Len(Lit_BOOK)
                /\ Clamp(ln, p1, c0) = Lit_BOOKCODE
                /\ p2 > c0
                /\ g \/ \A p \in c0..(p2 - 1) : IsCodeChar(At(ln, p))
                /\ Clamp(ln, p2, d0) = Lit_CHAPTER
                /\ p3 > d0
                /\ \A p \in d0..(p3 - 1) : IsDigit(At(ln, p))
                /\ Clamp(ln, p3, Len(ln)) = Lit_HeaderTail
             THEN <<[book |-> Slice(ln, Len(Lit_BOOK), p1),
                     bookcode |-> Slice(ln, c0, p2),
                     chapter |-> Slice(ln, d0, p3)]>>
             ELSE <<>>

\* the offsets at which the literal |KO= can be matched when the EN group
\* starts at offset from: (.*)\|KO=(.*)$ in the strict validator,
\* (.+)\|KO=(.+)$ in the gloss validator
KoSplits(s, from, g) ==
    {q \in (IF g THEN from + 1 ELSE from)..(Len(s) - (IF g THEN 5 ELSE 4)) :
        Slice(s, q, q + 4) = Lit_KO}

\* TITLE_RE.match(line); the EN group is greedy, so the last |KO= splits
TITLE_RE(ln, g) ==
    IF StartsWith(ln, Lit_T_EN) /\ KoSplits(ln, Len(Lit_T_EN), g) # {}
    THEN LET q == Max(KoSplits(ln, Len(Lit_T_EN), g))
         IN  <<[en |-> Slice(ln, Len(Lit_T_EN), q), ko |-> Slice(ln, q + 4, Len(ln))]>>
    ELSE <<>>

\* the ends of the N group: digits from offset 4 with |EN= behind them
VerseNumEnds(ln) ==
    {j \in DigitEnds(ln, Len(Lit_V_N)) : Clamp(ln, j, j + 4) = Lit_EN}

\* VERSE_RE.match(line); the EN group is greedy, so the last |KO= splits
VERSE_RE(ln, g) ==
    IF StartsWith(ln, Lit_V_N) /\ VerseNumEnds(ln) # {}
    THEN LET j == Max(VerseNumEnds(ln))
         IN  IF KoSplits(ln, j + 4, g) # {}
             THEN LET q == Max(KoSplits(ln, j + 4, g))
                  IN  <<[n |-> Slice(ln, Len(Lit_V_N), j),
                         en |-> Slice(ln, j + 4, q),
                         ko |-> Slice(ln, q + 4, Len(ln))]>>
             ELSE <<>>
    ELSE <<>>

\* one line a program prints: its tag, the reason and the numbers it cites
Msg(tag, reason, args) == [tag |-> tag, reason |-> reason, args |-> args]

\* how a run of a validator ends: exit status, the lines printed in order,
\* and the verse count reported on success
Verdict(tool, exit, out, count) ==
    [tool |-> tool, exit |-> exit, out |-> out, count |-> count]

NoVerdict == Verdict("none", 0, <<>>, 0)

RECURSIVE StripNewlines(_)
\* text.strip("\n"): the empty lines at both ends of the file go
StripNewlines(lns) ==
    IF lns = <<>> THEN lns
    ELSE IF Head(lns) = <<>> THEN StripNewlines(Tail(lns))
    ELSE IF lns[Len(lns)] = <<>> THEN StripNewlines(SubSeq(lns, 1, Len(lns) - 1))
    ELSE lns

\* split_lines_strict: the 1-based numbers of the blank lines
split_lines_strict(lns) == {i \in 1..Len(lns) : IsBlank(lns[i])}

\* validate_header: the failure it reports, or none
validate_header(ln) ==
    IF \E i \in 1..Len(ln) : ln[i] \in {" ", "\t"}
    THEN <<Msg("FAIL", "Header contains whitespace", <<>>)>>
    ELSE IF HEADER_RE(ln, FALSE) = <<>>
    THEN <<Msg("FAIL", "Header format mismatch", <<>>)>>
    ELSE <<>>

\* validate_title: the failure it reports, or none
validate_title(ln) ==
    IF TITLE_RE(ln, FALSE) = <<>>
    THEN <<Msg("FAIL", "Title line format mismatch", <<>>)>>
    ELSE <<>>

\* validate_verse: the failure it reports, or none
validate_verse(ln, line_no) ==
    IF VERSE_RE(ln, FALSE) = <<>>
    THEN <<Msg("FAIL", "Verse line format mismatch", <<line_no>>)>>
    ELSE IF Count(ln, "|") # 3
    THEN <<Msg("FAIL", "pipe count", <<line_no, Count(ln, "|")>>)>>
    ELSE IF ~StartsWith(ln, Lit_V_N) \/ ~Contains(ln, Lit_EN) \/ ~Contains(ln, Lit_KO)
    THEN <<Msg("FAIL", "Verse keys/order invalid", <<line_no>>)>>
    ELSE IF Find(ln, Lit_EN, 0) > Find(ln, Lit_KO, 0)
    THEN <<Msg("FAIL", "Verse key order invalid", <<line_no>>)>>
    ELSE <<>>

\* the Verse validate_verse returns for a line it accepts
Verse(ln, line_no) ==
    Only({[n |-> int(m[1].n), en |-> m[1].en, ko |-> m[1].ko, line_no |-> line_no] :
          m \in {VERSE_RE(ln, FALSE)}})

\* sorted({n for n in nums if nums.count(n) > 1})
dup(nums) ==
    {nums[i] : i \in {i \in 1..Len(nums) : \E j \in 1..Len(nums) : j # i /\ nums[j] = nums[i]}}

\* mutant: a number counts as missing when it is not at its own position
missing_positional(nums) == {i \in 1..Len(nums) : nums[i] # i}

\* sorted(set(range(1, max(nums) + 1)) - set(nums))
missing(nums) ==
    (1..Max({nums[i] : i \in 1..Len(nums)})) \ {nums[i] : i \in 1..Len(nums)}

\* mutant: the line-by-line order loop is left out
order_break_none(nums) == {}

\* the indices i of the order loop at which nums[i] != nums[i-1] + 1
order_break(nums) == {i \in 2..Len(nums) : nums[i] # nums[i - 1] + 1}

\* main of tools/verify_chapter.py from `nums = [v.n for v in verses]` on
verify_chapter_verses(verses, out) ==
    Only({
        IF nums[1] # 1
        THEN Verdict("strict", 1, out \o <<Msg("FAIL", "First verse N", <<nums[1]>>)>>, 0)
        ELSE IF dup(nums) # {}
        THEN Verdict("strict", 1,
                     out \o <<Msg("FAIL", "Duplicate verse numbers", sorted(dup(nums)))>>, 0)
        ELSE IF missing(nums) # {}
        THEN Verdict("strict", 1,
                     out \o <<Msg("FAIL", "Missing verse numbers", sorted(missing(nums)))>>, 0)
        ELSE IF order_break(nums) # {}
        THEN LET i == Min(order_break(nums))
             IN  Verdict("strict", 1,
                         out \o <<Msg("FAIL", "Verse order break",
                                      <<verses[i - 1].line_no, nums[i - 1],
                                        verses[i].line_no, nums[i]>>)>>, 0)
        ELSE Verdict("strict", 0,
                     out \o <<Msg("OK", "Verses OK", <<Len(verses), Max({nums[i] : i \in 1..Len(nums)})>>)>>
                         \o (IF \E i \in 1..Len(verses) : strip(verses[i].en) = <<>>
                             THEN <<Msg("WARN", "empty EN text", <<>>)>> ELSE <<>>)
                         \o <<Msg("PASS", "", <<>>)>>,
                     Len(verses))
        : nums \in {[i \in 1..Len(verses) |-> verses[i].n]}})

\* main of tools/verify_chapter.py on the text of a file
verify_chapter_main(file) ==
    LET lines == StripNewlines(file)
    IN  IF \A i \in 1..Len(lines) : IsBlank(lines[i])
        THEN Verdict("strict", 1, <<Msg("FAIL", "Empty input", <<>>)>>, 0)
        ELSE IF split_lines_strict(lines) # {}
        THEN Verdict("strict", 1,
                     <<Msg("FAIL", "Blank line detected", <<Min(split_lines_strict(lines))>>)>>, 0)
        ELSE IF Len(lines) < 3
        THEN Verdict("strict", 1, <<Msg("FAIL", "Input too short", <<>>)>>, 0)
        ELSE IF validate_header(lines[1]) # <<>>
        THEN Verdict("strict", 1, validate_header(lines[1]), 0)
        ELSE IF validate_title(lines[2]) # <<>>
        THEN Verdict("strict", 1,
                     <<Msg("OK", "Header parsed", <<>>)>> \o validate_title(lines[2]), 0)
        ELSE LET oks == <<Msg("OK", "Header parsed", <<>>), Msg("OK", "Title parsed", <<>>)>>
             IN  Only({
                     IF bad # {}
                     THEN Verdict("strict", 1,
                                  oks \o validate_verse(lines[Min(bad)], Min(bad)), 0)
                     ELSE Only({verify_chapter_verses(verses, oks) :
                                verses \in {[i \in 1..(Len(lines) - 2) |->
                                                Verse(lines[i + 2], i + 2)]}})
                     : bad \in {{i \in 3..Len(lines) : validate_verse(lines[i], i) # <<>>}}})

Lit_unto == <<"u", "n", "t", "o">>

Lit_unto_open == <<"u", "n", "t", "o", "(">>

Lit_unto_to == <<"u", "n", "t", "o", "(", "t", "o", ")">>

\* the end of the run of letters [A-Za-z]+ that starts at offset i
LetterRunEnd(s, i) ==
    Max({e \in (i + 1)..Len(s) : \A p \in i..(e - 1) : IsLetter(At(s, p))})

\* the match of GLOSS_RE that starts exactly at offset i, as zero or one
\* match: the whole run of letters, '(', a non-empty gloss without
\* parentheses, ')'
GlossAt(s, i) ==
    IF i < Len(s) /\ IsLetter(At(s, i))
    THEN LET j == LetterRunEnd(s, i)
             P == {p \in (j + 1)..(Len(s) - 1) : At(s, p) \in {"(", ")"}}
         IN  IF /\ j < Len(s)
                /\ At(s, j) = "("
                /\ P # {}
                /\ At(s, Min(P)) = ")"
                /\ Min(P) > j + 1
             THEN <<[start |-> i, end |-> Min(P) + 1,
                     g1 |-> Slice(s, i, j), g2 |-> Slice(s, j + 1, Min(P))]>>
             ELSE <<>>
    ELSE <<>>

RECURSIVE gloss_finditer(_, _)
\* GLOSS_RE.finditer(en) from offset pos
gloss_finditer(s, pos) ==
    IF pos >= Len(s) THEN <<>>
    ELSE LET m == GlossAt(s, pos)
         IN  IF m = <<>> THEN gloss_finditer(s, pos + 1)
             ELSE m \o gloss_finditer(s, m[1].end)

GLOSS_RE(s) == gloss_finditer(s, 0)

\* mutant: whatever lies between two glosses, they count as consecutive
BETWEEN_ALLOWED_any(between) == TRUE

\* BETWEEN_ALLOWED_RE.match(between): ^[\s\W_]*$
BETWEEN_ALLOWED_RE(between) ==
    \A i \in 1..Len(between) :
        IsSpace(between[i]) \/ ~IsWordChar(between[i]) \/ between[i] = "_"

check_consecutive_duplicate_gloss(en) ==
    \A matches \in {GLOSS_RE(en)} :
        \E i \in 2..Len(matches) :
            /\ lower(matches[i - 1].g1) = lower(matches[i].g1)
            /\ lower(matches[i - 1].g2) = lower(matches[i].g2)
            /\ BETWEEN_ALLOWED_RE(Slice(en, matches[i - 1].end, matches[i].start))

\* fail(msg, line_no, line): the message line and the echo of the line
gloss_fail(reason, line_no) ==
    Verdict("gloss", 1,
            <<Msg("[FAIL]", reason, <<line_no>>), Msg("echo", "line", <<line_no>>)>>, 0)

\* the archaic rule of verify on one EN text: the failure reason, or none
archaic_rule(en) ==
    IF Contains(en, Lit_unto)
    THEN IF ~Contains(en, Lit_unto_open) THEN <<"archaic rule: must be glossed">>
         ELSE IF ~Contains(en, Lit_unto_to) THEN <<"archaic rule: gloss must be (to)">>
         ELSE <<>>
    ELSE <<>>

RECURSIVE verse_loop(_, _, _)
\* the verse loop of verify from line idx on, with expected_n
verse_loop(lines, idx, expected_n) ==
    IF idx > Len(lines) THEN Verdict("gloss", 0, <<Msg("[OK]", "verses", <<expected_n - 1>>)>>,
                                     expected_n - 1)
    ELSE LET m == VERSE_RE(lines[idx], TRUE)
         IN  IF m = <<>> THEN gloss_fail("invalid verse format", idx)
             ELSE IF int(m[1].n) # expected_n THEN gloss_fail("verse continuity error", idx)
             ELSE IF archaic_rule(m[1].en) # <<>> THEN gloss_fail(archaic_rule(m[1].en)[1], idx)
             ELSE IF check_consecutive_duplicate_gloss(m[1].en)
             THEN gloss_fail("duplicate gloss repeated consecutively", idx)
             ELSE verse_loop(lines, idx + 1, expected_n + 1)

\* verify of tools/verify/verify_chapter.py on the text of a file, and the
\* line main prints on success
verify(file) ==
    LET lines == SelectSeq(file, LAMBDA ln : ~IsBlank(ln))
    IN  IF Len(lines) < 3
        THEN Verdict("gloss", 1, <<Msg("[FAIL]", "too few lines", <<>>)>>, 0)
        ELSE IF HEADER_RE(lines[1], TRUE) = <<>> THEN gloss_fail("invalid header format", 1)
        ELSE IF TITLE_RE(lines[2], TRUE) = <<>> THEN gloss_fail("invalid title format", 2)
        ELSE verse_loop(lines, 3, 1)

-----------------------------------------------------------------------------
(* split_kjv_raw main and the emitter build_chapter_en_only                *)
(* A file system is a function from paths to files.                        *)

\* how a run of split_kjv_raw or of build_chapter_en_only ends
Run(exit, out) == [exit |-> exit, out |-> out]

NoRun == Run(-1, <<>>)

\* build_chapter_en_only has not run
NoBuild == [exit |-> -1, out |-> <<>>, bookcode |-> <<>>, chapter |-> 0]

\* f"{chap:03d}"
pad3(n) ==
    IF n < 10 THEN <<"0", "0">> \o str(n)
    ELSE IF n < 100 THEN <<"0">> \o str(n)
    ELSE str(n)

Dir_out_raw == <<"t", "o", "o", "l", "s", "/", "o", "u", "t", "_", "r", "a", "w",
      "/">>

Dir_final_en_only == <<"t", "o", "o", "l", "s", "/", "f", "i", "n", "a", "l", "_", "e",
      "n", "_", "o", "n", "l", "y", "/">>

\* f"{bookcode}_{chap:03d}.txt" in directory dir
chapter_path(dir, bookcode, chap) ==
    dir \o bookcode \o <<"_">> \o pad3(chap) \o <<".", "t", "x", "t">>

\* validate_chapter: the failure it dies with, or none
validate_chapter(chap, verse_map) ==
    IF DOMAIN verse_map = {}
    THEN <<Msg("FAIL", "no verses parsed", <<chap>>)>>
    ELSE IF Min(DOMAIN verse_map) # 1
    THEN <<Msg("FAIL", "first verse", <<chap, Min(DOMAIN verse_map)>>)>>
    ELSE IF (1..Max(DOMAIN verse_map)) \ DOMAIN verse_map # {}
    THEN <<Msg("FAIL", "missing verses",
               <<chap>> \o sorted((1..Max(DOMAIN verse_map)) \ DOMAIN verse_map))>>
    ELSE <<>>

\* the file split_kjv_raw main writes for a chapter: "{chap}:{v} {text}"
\* for v in sorted(verse_map)
out_raw_file(chap, verse_map) ==
    LET vs == sorted(DOMAIN verse_map)
    IN  [i \in 1..Len(vs) |->
            str(chap) \o <<":">> \o str(vs[i]) \o <<" ">> \o verse_map[vs[i]]]

RECURSIVE split_loop_write_first(_, _, _, _, _)
\* mutant: the file of a chapter is written before the chapter is validated
split_loop_write_first(chs, chaps, bookcode, files, n) ==
    IF chaps = <<>>
    THEN [run |-> Run(0, <<Msg("PASS", "wrote chapters", <<n>>)>>), fs |-> files]
    ELSE LET written == DictSet(files, chapter_path(Dir_out_raw, bookcode, Head(chaps)),
                                out_raw_file(Head(chaps), chs[Head(chaps)]))
         IN  IF validate_chapter(Head(chaps), chs[Head(chaps)]) # <<>>
             THEN [run |-> Run(1, validate_chapter(Head(chaps), chs[Head(chaps)])),
                   fs |-> written]
             ELSE split_loop_write_first(chs, Tail(chaps), bookcode, written, n)

RECURSIVE split_loop(_, _, _, _, _)
\* the chapter loop of split_kjv_raw main over chaps, the chapters still to do
split_loop(chs, chaps, bookcode, files, n) ==
    IF chaps = <<>>
    THEN [run |-> Run(0, <<Msg("PASS", "wrote chapters", <<n>>)>>), fs |-> files]
    ELSE IF validate_chapter(Head(chaps), chs[Head(chaps)]) # <<>>
    THEN [run |-> Run(1, validate_chapter(Head(chaps), chs[Head(chaps)])), fs |-> files]
    ELSE split_loop(chs, Tail(chaps), bookcode,
                    DictSet(files, chapter_path(Dir_out_raw, bookcode, Head(chaps)),
                            out_raw_file(Head(chaps), chs[Head(chaps)])),
                    n)

\* main of split_kjv_raw.py on the lines of the input file
split_main(lns, arg, files) ==
    LET chs == parse_raw(lns).chapters
    IN  IF parse_raw_raises(lns)
        THEN [run |-> Run(1, <<Msg("Traceback", "ValueError", <<>>)>>), fs |-> files]
        ELSE IF DOMAIN chs = {}
        THEN [run |-> Run(1, <<Msg("FAIL", "No chapters parsed", <<>>)>>), fs |-> files]
        ELSE split_loop(chs, sorted(DOMAIN chs), lower(strip(arg)), files,
                        Cardinality(DOMAIN chs))

Code_gen == <<"g", "e", "n">>

\* the Korean names are kept character by character, a Hangul syllable being
\* the one character named by its code point
BOOKNAME_MAP ==
    (Code_gen :> [en |-> <<"G", "e", "n", "e", "s", "i", "s">>, ko |-> <<"U+CC3D", "U+C138", "U+AE30">>]) @@
    (<<"e", "x", "o">> :> [en |-> <<"E", "x", "o", "d", "u", "s">>, ko |-> <<"U+CD9C", "U+C560", "U+AD7D", "U+AE30">>]) @@
    (<<"l", "e", "v">> :> [en |-> <<"L", "e", "v", "i", "t", "i", "c", "u", "s">>, ko |-> <<"U+B808", "U+C704", "U+AE30">>]) @@
    (<<"n", "u", "m">> :> [en |-> <<"N", "u", "m", "b", "e", "r", "s">>, ko |-> <<"U+BBFC", "U+C218", "U+AE30">>]) @@
    (<<"d", "e", "u">> :> [en |-> <<"D", "e", "u", "t", "e", "r", "o", "n", "o", "m", "y">>,
                  ko |-> <<"U+C2E0", "U+BA85", "U+AE30">>])

\* the end of the run of whitespace that starts at offset i
SpaceRunEnd(s, i) ==
    Max({e \in i..Len(s) : \A p \in i..(e - 1) : IsSpace(At(s, p))})

\* LINE_RE.match(ln): ^(\d+):(\d+)\s+(.*)$ as zero or one match
LINE_RE(ln) ==
    LET E1 == {j \in DigitEnds(ln, 0) : j < Len(ln) /\ At(ln, j) = ":"}
    IN  IF E1 = {} THEN <<>>
        ELSE LET j  == Max(E1)
                 E2 == {k \in DigitEnds(ln, j + 1) : k < Len(ln) /\ IsSpace(At(ln, k))}
             IN  IF E2 = {} THEN <<>>
                 ELSE <<[g1 |-> Slice(ln, 0, j), g2 |-> Slice(ln, j + 1, Max(E2)),
                         g3 |-> Slice(ln, SpaceRunEnd(ln, Max(E2)), Len(ln))]>>

\* the header line build_chapter_en_only writes
header_line(book_en, bookcode, chapter) ==
    Lit_BOOK \o book_en \o Lit_BOOKCODE \o bookcode \o Lit_CHAPTER \o str(chapter)
             \o Lit_HeaderTail

\* the title line build_chapter_en_only writes
title_line(book_en, book_ko, chapter) ==
    Lit_T_EN \o book_en \o <<" ">> \o str(chapter) \o Lit_KO
             \o book_ko \o <<" ">> \o str(chapter) \o <<"U+C7A5">>

\* a verse line of the grammar; build_chapter_en_only writes it with ko = ""
verse_line(v, txt, ko) == Lit_V_N \o str(v) \o Lit_EN \o txt \o Lit_KO \o ko

RECURSIVE sort_verses(_)
\* verses.sort(key=lambda x: x[0]): a stable sort of (v, txt) pairs
sort_verses(verses) ==
    IF verses = <<>> THEN <<>>
    ELSE LET lo == Min({verses[i].v : i \in 1..Len(verses)})
         IN  SelectSeq(verses, LAMBDA x : x.v = lo)
                 \o sort_verses(SelectSeq(verses, LAMBDA x : x.v # lo))

\* mutant: a book code the table lacks is its own English name
build_main_unlisted(arg, chapter, files) ==
    LET bookcode == lower(strip(arg))
        in_path  == chapter_path(Dir_out_raw, bookcode, chapter)
        names    == IF bookcode \in DOMAIN BOOKNAME_MAP THEN BOOKNAME_MAP[bookcode]
                    ELSE [en |-> bookcode, ko |-> <<>>]
    IN  IF in_path \notin DOMAIN files
        THEN [run |-> Run(1, <<Msg("FAIL", "Input not found", <<>>)>>), fs |-> files]
        ELSE LET lines == files[in_path]
                 bad   == {i \in 1..Len(lines) :
                              \/ LINE_RE(lines[i]) = <<>>
                              \/ int(LINE_RE(lines[i])[1].g1) # chapter}
             IN  IF bad # {} /\ LINE_RE(lines[Min(bad)]) = <<>>
                 THEN [run |-> Run(1, <<Msg("FAIL", "Bad line format", <<Min(bad)>>)>>),
                       fs |-> files]
                 ELSE IF bad # {}
                 THEN [run |-> Run(1, <<Msg("FAIL", "Chapter mismatch",
                                            <<chapter, int(LINE_RE(lines[Min(bad)])[1].g1)>>)>>),
                       fs |-> files]
                 ELSE LET verses == sort_verses(
                              [i \in 1..Len(lines) |->
                                  [v |-> int(LINE_RE(lines[i])[1].g2),
                                   txt |-> strip(LINE_RE(lines[i])[1].g3)]])
                      IN  IF verses = <<>>
                          THEN [run |-> Run(1, <<Msg("FAIL", "No verses parsed", <<>>)>>),
                                fs |-> files]
                          ELSE IF verses[1].v # 1
                          THEN [run |-> Run(1, <<Msg("FAIL", "First verse", <<verses[1].v>>)>>),
                                fs |-> files]
                          ELSE [run |-> Run(0, <<Msg("PASS", "wrote", <<>>)>>),
                                fs |-> DictSet(files,
                                    chapter_path(Dir_final_en_only, bookcode, chapter),
                                    <<header_line(names.en, bookcode, chapter),
                                      title_line(names.en,
                                                 names.ko, chapter)>>
                                    \o [i \in 1..Len(verses) |->
                                           verse_line(verses[i].v, verses[i].txt, <<>>)])]

\* main of build_chapter_en_only.py
build_main(arg, chapter, files) ==
    LET bookcode == lower(strip(arg))
        in_path  == chapter_path(Dir_out_raw, bookcode, chapter)
    IN  IF bookcode \notin DOMAIN BOOKNAME_MAP
        THEN [run |-> Run(1, <<Msg("FAIL", "Unknown bookcode", <<>>)>>), fs |-> files]
        ELSE IF in_path \notin DOMAIN files
        THEN [run |-> Run(1, <<Msg("FAIL", "Input not found", <<>>)>>), fs |-> files]
        ELSE LET lines == files[in_path]
                 bad   == {i \in 1..Len(lines) :
                              \/ LINE_RE(lines[i]) = <<>>
                              \/ int(LINE_RE(lines[i])[1].g1) # chapter}
             IN  IF bad # {} /\ LINE_RE(lines[Min(bad)]) = <<>>
                 THEN [run |-> Run(1, <<Msg("FAIL", "Bad line format", <<Min(bad)>>)>>),
                       fs |-> files]
                 ELSE IF bad # {}
                 THEN [run |-> Run(1, <<Msg("FAIL", "Chapter mismatch",
                                            <<chapter, int(LINE_RE(lines[Min(bad)])[1].g1)>>)>>),
                       fs |-> files]
                 ELSE LET verses == sort_verses(
                              [i \in 1..Len(lines) |->
                                  [v |-> int(LINE_RE(lines[i])[1].g2),
                                   txt |-> strip(LINE_RE(lines[i])[1].g3)]])
                      IN  IF verses = <<>>
                          THEN [run |-> Run(1, <<Msg("FAIL", "No verses parsed", <<>>)>>),
                                fs |-> files]
                          ELSE IF verses[1].v # 1
                          THEN [run |-> Run(1, <<Msg("FAIL", "First verse", <<verses[1].v>>)>>),
                                fs |-> files]
                          ELSE [run |-> Run(0, <<Msg("PASS", "wrote", <<>>)>>),
                                fs |-> DictSet(files,
                                    chapter_path(Dir_final_en_only, bookcode, chapter),
                                    <<header_line(BOOKNAME_MAP[bookcode].en, bookcode, chapter),
                                      title_line(BOOKNAME_MAP[bookcode].en,
                                                 BOOKNAME_MAP[bookcode].ko, chapter)>>
                                    \o [i \in 1..Len(verses) |->
                                           verse_line(verses[i].v, verses[i].txt, <<>>)])]

-----------------------------------------------------------------------------
(* tools/generate_chapter.py: one chapter from kjv_66.txt, then the verifier *)

\* bookcode -> canonical English book name
BOOK_NAME_MAP ==
    (<<"g", "e", "n">> :> <<"G", "e", "n", "e", "s", "i", "s">>) @@
    (<<"e", "x", "o">> :> <<"E", "x", "o", "d", "u", "s">>) @@
    (<<"l", "e", "v">> :> <<"L", "e", "v", "i", "t", "i", "c", "u", "s">>) @@
    (<<"n", "u", "m">> :> <<"N", "u", "m", "b", "e", "r", "s">>) @@
    (<<"d", "e", "u">> :> <<"D", "e", "u", "t", "e", "r", "o", "n", "o", "m", "y">>) @@
    (<<"j", "o", "s">> :> <<"J", "o", "s", "h", "u", "a">>) @@
    (<<"j", "d", "g">> :> <<"J", "u", "d", "g", "e", "s">>) @@
    (<<"r", "u", "t">> :> <<"R", "u", "t", "h">>) @@
    (<<"1", "s", "a">> :> <<"1", " ", "S", "a", "m", "u", "e", "l">>) @@
    (<<"2", "s", "a">> :> <<"2", " ", "S", "a", "m", "u", "e", "l">>) @@
    (<<"1", "k", "i">> :> <<"1", " ", "K", "i", "n", "g", "s">>) @@
    (<<"2", "k", "i">> :> <<"2", " ", "K", "i", "n", "g", "s">>) @@
    (<<"1", "c", "h">> :> <<"1", " ", "C", "h", "r", "o", "n", "i", "c", "l", "e", "s">>) @@
    (<<"2", "c", "h">> :> <<"2", " ", "C", "h", "r", "o", "n", "i", "c", "l", "e", "s">>) @@
    (<<"e", "z", "r">> :> <<"E", "z", "r", "a">>) @@
    (<<"n", "e", "h">> :> <<"N", "e", "h", "e", "m", "i", "a", "h">>) @@
    (<<"e", "s", "t">> :> <<"E", "s", "t", "h", "e", "r">>) @@
    (<<"j", "o", "b">> :> <<"J", "o", "b">>) @@
    (<<"p", "s", "a">> :> <<"P", "s", "a", "l", "m", "s">>) @@
    (<<"p", "r", "o">> :> <<"P", "r", "o", "v", "e", "r", "b", "s">>) @@
    (<<"e", "c", "c">> :> <<"E", "c", "c", "l", "e", "s", "i", "a", "s", "t", "e", "s">>) @@
    (<<"s", "n", "g">> :> <<"S", "o", "n", "g", " ", "o", "f", " ", "S", "o", "l", "o", "m",
          "o", "n">>) @@
    (<<"i", "s", "a">> :> <<"I", "s", "a", "i", "a", "h">>) @@
    (<<"j", "e", "r">> :> <<"J", "e", "r", "e", "m", "i", "a", "h">>) @@
    (<<"l", "a", "m">> :> <<"L", "a", "m", "e", "n", "t", "a", "t", "i", "o", "n", "s">>) @@
    (<<"e", "z", "k">> :> <<"E", "z", "e", "k", "i", "e", "l">>) @@
    (<<"d", "a", "n">> :> <<"D", "a", "n", "i", "e", "l">>) @@
    (<<"h", "o", "s">> :> <<"H", "o", "s", "e", "a">>) @@
    (<<"j", "o", "l">> :> <<"J", "o", "e", "l">>) @@
    (<<"a", "m", "o">> :> <<"A", "m", "o", "s">>) @@
    (<<"o", "b", "a">> :> <<"O", "b", "a", "d", "i", "a", "h">>) @@
    (<<"j", "o", "n">> :> <<"J", "o", "n", "a", "h">>) @@
    (<<"m", "i", "c">> :> <<"M", "i", "c", "a", "h">>) @@
    (<<"n", "a", "h">> :> <<"N", "a", "h", "u", "m">>) @@
    (<<"h", "a", "b">> :> <<"H", "a", "b", "a", "k", "k", "u", "k">>) @@
    (<<"z", "e", "p">> :> <<"Z", "e", "p", "h", "a", "n", "i", "a", "h">>) @@
    (<<"h", "a", "g">> :> <<"H", "a", "g", "g", "a", "i">>) @@
    (<<"z", "e", "c">> :> <<"Z", "e", "c", "h", "a", "r", "i", "a", "h">>) @@
    (<<"m", "a", "l">> :> <<"M", "a", "l", "a", "c", "h", "i">>) @@
    (<<"m", "a", "t">> :> <<"M", "a", "t", "t", "h", "e", "w">>) @@
    (<<"m", "r", "k">> :> <<"M", "a", "r", "k">>) @@
    (<<"l", "u", "k">> :> <<"L", "u", "k", "e">>) @@
    (<<"j", "h", "n">> :> <<"J", "o", "h", "n">>) @@
    (<<"a", "c", "t">> :> <<"A", "c", "t", "s">>) @@
    (<<"r", "o", "m">> :> <<"R", "o", "m", "a", "n", "s">>) @@
    (<<"1", "c", "o">> :> <<"1", " ", "C", "o", "r", "i", "n", "t", "h", "i", "a", "n", "s">>) @@
    (<<"2", "c", "o">> :> <<"2", " ", "C", "o", "r", "i", "n", "t", "h", "i", "a", "n", "s">>) @@
    (<<"g", "a", "l">> :> <<"G", "a", "l", "a", "t", "i", "a", "n", "s">>) @@
    (<<"e", "p", "h">> :> <<"E", "p", "h", "e", "s", "i", "a", "n", "s">>) @@
    (<<"p", "h", "p">> :> <<"P", "h", "i", "l", "i", "p", "p", "i", "a", "n", "s">>) @@
    (<<"c", "o", "l">> :> <<"C", "o", "l", "o", "s", "s", "i", "a", "n", "s">>) @@
    (<<"1", "t", "h">> :> <<"1", " ", "T", "h", "e", "s", "s", "a", "l", "o", "n", "i", "a",
          "n", "s">>) @@
    (<<"2", "t", "h">> :> <<"2", " ", "T", "h", "e", "s", "s", "a", "l", "o", "n", "i", "a",
          "n", "s">>) @@
    (<<"1", "t", "i">> :> <<"1", " ", "T", "i", "m", "o", "t", "h", "y">>) @@
    (<<"2", "t", "i">> :> <<"2", " ", "T", "i", "m", "o", "t", "h", "y">>) @@
    (<<"t", "i", "t">> :> <<"T", "i", "t", "u", "s">>) @@
    (<<"p", "h", "m">> :> <<"P", "h", "i", "l", "e", "m", "o", "n">>) @@
    (<<"h", "e", "b">> :> <<"H", "e", "b", "r", "e", "w", "s">>) @@
    (<<"j", "a", "s">> :> <<"J", "a", "m", "e", "s">>) @@
    (<<"1", "p", "e">> :> <<"1", " ", "P", "e", "t", "e", "r">>) @@
    (<<"2", "p", "e">> :> <<"2", " ", "P", "e", "t", "e", "r">>) @@
    (<<"1", "j", "n">> :> <<"1", " ", "J", "o", "h", "n">>) @@
    (<<"2", "j", "n">> :> <<"2", " ", "J", "o", "h", "n">>) @@
    (<<"3", "j", "n">> :> <<"3", " ", "J", "o", "h", "n">>) @@
    (<<"j", "u", "d">> :> <<"J", "u", "d", "e">>) @@
    (<<"r", "e", "v">> :> <<"R", "e", "v", "e", "l", "a", "t", "i", "o", "n">>)

Path_kjv_66 == <<"t", "o", "o", "l", "s", "/", "s", "o", "u", "r", "c", "e", "/",
      "k", "j", "v", "/", "k", "j", "v", "_", "6", "6", ".", "t", "x",
      "t">>

Dir_inbox == <<"t", "o", "o", "l", "s", "/", "i", "n", "b", "o", "x", "/">>

\* [a-z0-9]
IsBookChar(c) == (\E i \in 1..26 : LowerLetters[i] = c) \/ IsDigit(c)

\* LINE_RE.match(ln) of generate_chapter:
\* ^([a-z0-9]+)\t([0-9]+):([0-9]+)\t(.*)$ as zero or one match; no group
\* before the text can hold a tab or a colon, so each ends at the first one
gen_LINE_RE(ln) ==
    LET B == {j \in 1..(Len(ln) - 1) :
                 /\ \A p \in 0..(j - 1) : IsBookChar(At(ln, p))
                 /\ At(ln, j) = "\t"}
    IN  IF B = {} THEN <<>>
        ELSE LET j  == Max(B)
                 E1 == {k \in DigitEnds(ln, j + 1) : k < Len(ln) /\ At(ln, k) = ":"}
             IN  IF E1 = {} THEN <<>>
                 ELSE LET k  == Max(E1)
                          E2 == {q \in DigitEnds(ln, k + 1) :
                                    q < Len(ln) /\ At(ln, q) = "\t"}
                      IN  IF E2 = {} THEN <<>>
                          ELSE <<[g1 |-> Slice(ln, 0, j), g2 |-> Slice(ln, j + 1, k),
                                  g3 |-> Slice(ln, k + 1, Max(E2)),
                                  g4 |-> Slice(ln, Max(E2) + 1, Len(ln))]>>

\* load_chapter_verses on the lines of kjv_66.txt: the (vno, en) pairs of
\* the lines of the book and chapter asked for, sorted by vno
load_chapter_verses(bookcode, chapter, lines) ==
    LET kept == SelectSeq(lines, LAMBDA ln :
                    /\ gen_LINE_RE(ln) # <<>>
                    /\ gen_LINE_RE(ln)[1].g1 = bookcode
                    /\ int(gen_LINE_RE(ln)[1].g2) = chapter)
    IN  sort_verses([i \in 1..Len(kept) |->
                        [v   |-> int(gen_LINE_RE(kept[i])[1].g3),
                         txt |-> gen_LINE_RE(kept[i])[1].g4]])

\* mutant: only gaps and disorder are looked for
ensure_contiguous_gaps_only(verses) ==
    IF \E i \in 2..Len(verses) : verses[i].v # verses[i - 1].v + 1
    THEN <<Msg("FAIL", "verse gap or disorder", <<>>)>>
    ELSE <<>>

\* ensure_contiguous: the failure it exits with, or none
ensure_contiguous(verses) ==
    IF verses = <<>> THEN <<Msg("FAIL", "no verses found", <<>>)>>
    ELSE IF verses[1].v # 1 THEN <<Msg("FAIL", "first verse is", <<verses[1].v>>)>>
    ELSE LET gaps == {i \in 2..Len(verses) : verses[i].v # verses[i - 1].v + 1}
         IN  IF gaps # {}
             THEN <<Msg("FAIL", "verse gap or disorder",
                        <<verses[Min(gaps) - 1].v, verses[Min(gaps)].v>>)>>
             ELSE <<>>

\* out_filename: book_name.lower().replace(" ", "") + f"_{chapter:03d}.txt"
out_filename(book_name, chapter) ==
    SelectSeq(lower(book_name), LAMBDA c : c # " ") \o <<"_">> \o pad3(chapter)
        \o <<".", "t", "x", "t">>

\* how a run of generate_chapter ends, with the verifier's verdict when it
\* got as far as running it
GenRun(exit, out, files, v) == [run |-> Run(exit, out), fs |-> files, verdict |-> v]

\* main of generate_chapter.py, the run of tools/verify_chapter.py included
generate_main(arg, chapter, files) ==
    LET bookcode == lower(strip(arg))
    IN  IF bookcode \notin DOMAIN BOOK_NAME_MAP
        THEN GenRun(1, <<Msg("FAIL", "unknown bookcode", <<>>)>>, files, NoVerdict)
        ELSE IF Path_kjv_66 \notin DOMAIN files
        THEN GenRun(1, <<Msg("FAIL", "missing source file", <<>>)>>, files, NoVerdict)
        ELSE Only({
            IF ensure_contiguous(verses) # <<>>
            THEN GenRun(1, ensure_contiguous(verses), files, NoVerdict)
            ELSE Only({
                Only({GenRun(v.exit,
                             <<Msg("OK", "wrote", <<Len(verses)>>)>> \o v.out,
                             DictSet(files, out_path, text), v) :
                      v \in {verify_chapter_main(text)}}) :
                out_path \in {Dir_inbox \o out_filename(BOOK_NAME_MAP[bookcode], chapter)},
                text \in {<<Lit_BOOK \o BOOK_NAME_MAP[bookcode] \o Lit_BOOKCODE \o bookcode
                              \o Lit_CHAPTER \o str(chapter) \o Lit_HeaderTail,
                            Lit_T_EN \o BOOK_NAME_MAP[bookcode] \o <<" ">> \o str(chapter)
                              \o Lit_KO>>
                          \o [i \in 1..Len(verses) |->
                                 verse_line(verses[i].v, verses[i].txt, <<>>)]}}) :
            verses \in {load_chapter_verses(bookcode, chapter, files[Path_kjv_66])}})

-----------------------------------------------------------------------------
(* tools/fill_ko_with_openai.py as a step of the batch driver, and          *)
(* tools/batch_build_book.py                                                *)

Dir_final == <<"t", "o", "o", "l", "s", "/", "f", "i", "n", "a", "l", "/">>

\* parse_input_file: the failure it dies with, or none; the regular
\* expressions are those of tools/verify_chapter.py
parse_input_file(raw) ==
    IF Len(raw) < 3 THEN <<Msg("FAIL", "Input file too short", <<>>)>>
    ELSE IF HEADER_RE(raw[1], FALSE) = <<>> THEN <<Msg("FAIL", "Header mismatch", <<>>)>>
    ELSE IF TITLE_RE(raw[2], FALSE) = <<>> THEN <<Msg("FAIL", "Title mismatch", <<>>)>>
    ELSE IF \E i \in 3..Len(raw) : VERSE_RE(raw[i], FALSE) = <<>>
    THEN <<Msg("FAIL", "Bad verse line",
               <<Min({i \in 3..Len(raw) : VERSE_RE(raw[i], FALSE) = <<>>})>>)>>
    ELSE <<>>

\* the (n, en) pairs parse_input_file returns, sorted by n
input_verses(raw) ==
    sort_verses([i \in 1..(Len(raw) - 2) |->
                    [v   |-> int(VERSE_RE(raw[i + 2], FALSE)[1].n),
                     txt |-> VERSE_RE(raw[i + 2], FALSE)[1].en]])

Lit_KO_N == <<"K", "O", "|", "N", "=">>

\* int(n_str) of parse_ko_response: surrounding whitespace and one sign are
\* taken, anything else than digits raises (no text of the model holds an
\* underscore); <<>> when it raises
int_literal(n_str) ==
    LET t    == strip(n_str)
        body == IF t # <<>> /\ t[1] \in {"+", "-"} THEN Tail(t) ELSE t
    IN  IF body # <<>> /\ (\A i \in 1..Len(body) : IsDigit(body[i])) /\ ~int_raises(body)
        THEN <<IF t[1] = "-" THEN 0 - int(body) ELSE int(body)>>
        ELSE <<>>

\* what one line of the response adds to out: nothing, or <<[n, ko]>>
parse_ko_line(line0) ==
    LET ln == strip(line0)
    IN  IF ln = <<>> THEN <<>>
        ELSE IF ~StartsWith(ln, Lit_KO_N) \/ ~Contains(ln, Lit_KO) THEN <<>>
        ELSE LET cut    == Find(ln, Lit_KO, 0)
                 n_str  == Slice(ln, Len(Lit_KO_N), cut)
                 ko     == strip(Slice(ln, cut + Len(Lit_KO), Len(ln)))
             IN  IF int_literal(n_str) = <<>> \/ ko = <<>> THEN <<>>
                 ELSE <<[n |-> int_literal(n_str)[1], ko |-> ko]>>

RECURSIVE parse_ko_lines(_, _)
parse_ko_lines(out, lns) ==
    IF lns = <<>> THEN out
    ELSE Only({parse_ko_lines(IF r = <<>> THEN out ELSE DictSet(out, r[1].n, r[1].ko),
                              Tail(lns)) :
                  r \in {parse_ko_line(Head(lns))}})

\* parse_ko_response(text) for the text whose lines are lns
parse_ko_response(lns) == parse_ko_lines(EmptyDict, lns)

\* ko_map.update(d)
DictUpdate(ko_map, d) ==
    [n \in DOMAIN ko_map \cup DOMAIN d |-> IF n \in DOMAIN d THEN d[n] ELSE ko_map[n]]

\* mutant: every verse of the chapter counts as missing
fill_missing_all(verses, ko_map) ==
    sorted(1..Max({verses[i].v : i \in 1..Len(verses)}))

\* [n for n in range(1, max_n + 1) if n not in ko_map]
fill_missing(verses, ko_map) ==
    sorted((1..Max({verses[i].v : i \in 1..Len(verses)})) \ DOMAIN ko_map)

\* main has ended with a status and a last line
fill_end(f, exit, out) ==
    [f EXCEPT !.at = IF exit = 0 THEN "done" ELSE "failed", !.exit = exit, !.out = out]

\* main from its start to the first request: the prompt of build_prompt_all
\* names every verse of the input, in sorted order
fill_start(arg, chapter, files) ==
    LET f0 == [NoFill EXCEPT !.bookcode = lower(strip(arg)), !.chapter = chapter]
        in_path == chapter_path(Dir_final_en_only, lower(strip(arg)), chapter)
    IN  IF in_path \notin DOMAIN files
        THEN fill_end(f0, 1, <<Msg("FAIL", "Input not found", <<>>)>>)
        ELSE IF parse_input_file(files[in_path]) # <<>>
        THEN fill_end(f0, 1, parse_input_file(files[in_path]))
        ELSE Only({[f0 EXCEPT !.at = "call",
                              !.verses = verses,
                              !.requests = <<[kind |-> "all",
                                              nums |-> [i \in 1..Len(verses) |-> verses[i].v]]>>] :
                      verses \in {input_verses(files[in_path])}})

\* the write of the output file: ko_map[n] of a verse number outside 1..max_n
\* that no response gave is a KeyError, after the lines before it were written
fill_write(f, files) ==
    LET verses == f.verses
        in_path == chapter_path(Dir_final_en_only, f.bookcode, f.chapter)
        known == {i \in 0..Len(verses) : \A j \in 1..i : verses[j].v \in DOMAIN f.ko_map}
        text  == <<files[in_path][1], files[in_path][2]>>
                     \o [i \in 1..Max(known) |->
                            verse_line(verses[i].v, verses[i].txt, f.ko_map[verses[i].v])]
    IN  [fill |-> IF Max(known) = Len(verses)
                  THEN fill_end(f, 0, <<Msg("PASS", "wrote", <<>>)>>)
                  ELSE fill_end(f, 1, <<Msg("Traceback", "KeyError",
                                            <<verses[Max(known) + 1].v>>)>>),
         fs   |-> DictSet(files, chapter_path(Dir_final, f.bookcode, f.chapter), text)]

\* main from the merge of a response to the next request or to its end: the
\* head of the retry loop (three retries after the first request), then
\* missing_final and the write; build_prompt_missing raises KeyError for a
\* missing number the input has no verse of
fill_continue(f, files) ==
    Only({LET verses == f.verses
              unasked == {n \in {lacking[i] : i \in 1..Len(lacking)} :
                             \A i \in 1..Len(verses) : verses[i].v # n}
          IN  IF Len(f.requests) < 4 /\ lacking # <<>>
              THEN [fill |-> IF unasked # {}
                             THEN fill_end(f, 1, <<Msg("Traceback", "KeyError",
                                                       <<Min(unasked)>>)>>)
                             ELSE [f EXCEPT !.requests =
                                      Append(@, [kind |-> "missing", nums |-> lacking])],
                    fs   |-> files]
              ELSE IF lacking # <<>>
              THEN [fill |-> fill_end(f, 1, <<Msg("FAIL", "KO response missing verses",
                                                  lacking)>>),
                    fs   |-> files]
              ELSE fill_write(f, files) :
          lacking \in {fill_missing(f.verses, f.ko_map)}})

\* main from the end of call_openai on: answer is <<>> when the call died (no
\* key, a failed request, an unexpected body), else <<d>>, the dictionary
\* parse_ko_response made of the content
fill_answered(f, files, answer) ==
    IF answer = <<>>
    THEN [fill |-> fill_end(f, 1, <<Msg("FAIL", "OpenAI API request failed", <<>>)>>),
          fs   |-> files]
    ELSE fill_continue([f EXCEPT !.ko_map = DictUpdate(@, answer[1])], files)

\* what main parses of a reply: reply is <<>> when the call dies, else <<lns>>,
\* the lines of the content
reply_parsed(reply) ==
    IF reply = <<>> THEN <<>> ELSE <<parse_ko_response(reply[1])>>

\* call_openai returns and main goes on
fill_reply(f, files, reply) == fill_answered(f, files, reply_parsed(reply))

RECURSIVE fill_run(_, _, _)
\* main from a request on, the calls answered by replies in order and dying
\* once they are used up
fill_run(f, files, replies) ==
    IF f.at # "call" THEN [fill |-> f, fs |-> files]
    ELSE Only({fill_run(r.fill, r.fs, IF replies = <<>> THEN <<>> ELSE Tail(replies)) :
                  r \in {fill_reply(f, files,
                                    IF replies = <<>> THEN <<>> ELSE Head(replies))}})

\* main of fill_ko_with_openai.py as one command, its calls answered by
\* replies
fill_main(arg, chapter, files, replies) ==
    Only({[run |-> Run(r.fill.exit, r.fill.out), fs |-> r.fs] :
             r \in {fill_run(fill_start(arg, chapter, files), files, replies)}})

\* tools/verify_chapter.py <path>: read_text fails a path that does not exist
verify_chapter_file(path, files) ==
    IF path \notin DOMAIN files
    THEN Verdict("strict", 1, <<Msg("FAIL", "file not found", <<>>)>>, 0)
    ELSE verify_chapter_main(files[path])

\* how batch_build_book stands: where main is, its arguments, the chapter of
\* the loop, its exit status and last line once it ended, and the commands
\* run() has run with their return codes
Batch(at, bookcode, start, end, chap, exit, out, ran) ==
    [pc |-> at, bookcode |-> bookcode, start |-> start, end |-> end, chap |-> chap,
     exit |-> exit, out |-> out, ran |-> ran]

\* die(msg) in batch_build_book
batch_die(b, reason, args, ran) ==
    Batch("failed", b.bookcode, b.start, b.end, b.chap, 1,
          <<Msg("FAIL", reason, args)>>, ran)

\* run(cmd) with the return code rc of the command, and where main goes next
batch_run(b, cmd, rc, next) ==
    LET ran == Append(b.ran, [cmd |-> cmd, chap |-> b.chap, rc |-> rc])
    IN  IF rc # 0 THEN batch_die(b, "Command failed", <<b.chap>>, ran)
        ELSE IF next = "done"
        THEN Batch("done", b.bookcode, b.start, b.end, b.chap, 0,
                   <<Msg("PASS", "completed", <<b.start, b.end>>)>>, ran)
        ELSE Batch(next, b.bookcode, b.start, b.end,
                   IF next = "build" THEN b.chap + 1 ELSE b.chap, -1, <<>>, ran)

\* main of batch_build_book up to the chapter loop; the directory
\* tools/out_raw exists when a file is in it
batch_precheck(b, files) ==
    LET lacking == {c \in b.start..b.end :
                       chapter_path(Dir_out_raw, b.bookcode, c) \notin DOMAIN files}
    IN  IF \A p \in DOMAIN files : ~StartsWith(p, Dir_out_raw)
        THEN batch_die(b, "tools/out_raw not found", <<>>, b.ran)
        ELSE IF lacking # {}
        THEN batch_die(b, "Missing out_raw file", <<Min(lacking)>>, b.ran)
        ELSE IF b.start > b.end
        THEN Batch("done", b.bookcode, b.start, b.end, b.chap, 0,
                   <<Msg("PASS", "completed", <<b.start, b.end>>)>>, b.ran)
        ELSE Batch("build", b.bookcode, b.start, b.end, b.start, -1, <<>>, b.ran)

-----------------------------------------------------------------------------
(* Validator run: a document is handed to one of the validators            *)

MaxVerses == 3

MaxEnTokens == 3

Header_gen_1 == header_line(BOOKNAME_MAP[Code_gen].en, Code_gen, 1)

Title_gen_1 == title_line(BOOKNAME_MAP[Code_gen].en, BOOKNAME_MAP[Code_gen].ko, 1)

\* a document of verse lines numbered ns, with EN fields en, in the
\* fully-filled (ko = "k") or the EN-only (ko = "") dialect
NumberedDoc(ns, en, ko) ==
    <<Header_gen_1, Title_gen_1>> \o [i \in 1..Len(ns) |-> verse_line(ns[i], en[i], ko)]

EnTokens ==
    {Lit_unto_to, <<"U", "n", "t", "o", "(", "T", "O", ")">>, Lit_unto,
     <<"t", "h", "e", "r", "e", "u", "n", "t", "o">>, <<"(", "a", "t", ")">>,
     <<"x">>, <<" ">>, <<",">>, <<"1">>}

Text_went_unto_to ==
    <<"h", "e", " ", "w", "e", "n", "t", " ", "u", "n", "t", "o", "(",
      "t", "o", ")", " ", "t", "h", "e", " ", "c", "i", "t", "y">>

Text_went_unto ==
    <<"h", "e", " ", "w", "e", "n", "t", " ", "u", "n", "t", "o", " ",
      "t", "h", "e", " ", "c", "i", "t", "y">>

Text_unto_to_twice ==
    <<"u", "n", "t", "o", "(", "t", "o", ")", " ", "u", "n", "t", "o",
      "(", "t", "o", ")", " ", "t", "h", "e", " ", "c", "i", "t", "y">>

Text_unto_to_apart ==
    <<"u", "n", "t", "o", "(", "t", "o", ")", " ", "h", "e", " ", "w",
      "e", "n", "t", " ", "a", "n", "d", " ", "s", "p", "a", "k", "e",
      " ", "u", "n", "t", "o", "(", "t", "o", ")", " ", "t", "h", "e",
      "m">>

\* the four texts the lexical rules are documented with
DocumentedTexts ==
    {Text_went_unto_to, Text_went_unto, Text_unto_to_twice, Text_unto_to_apart}

\* the one-verse document with EN text en
GlossDoc(en) == <<Header_gen_1, Title_gen_1, verse_line(1, en, <<"k">>)>>

\* lines that are blank: the empty line and a line of one space
BlankLines == {<<>>, <<" ">>}

\* the document d with the line b put in after its first p lines
InsertLine(d, p, b) == SubSeq(d, 1, p) \o <<b>> \o SubSeq(d, p + 1, Len(d))

\* the document is either up to MaxVerses verse lines numbered in any way,
\* each EN field filled or empty, or one verse whose EN text is up to
\* MaxEnTokens tokens or a documented text, or a document of verses 1..k
\* with a blank line somewhere
InitVerify ==
    /\ pc = "verify"
    /\ ParseIdle
    /\ scanLine = <<>>
    /\ marks = NoMarks
    /\ WrapIdle
    /\ rawFile = <<>>
    /\ fs = EmptyDict
    /\ split = NoRun
    /\ build = NoBuild
    /\ \/ \E k \in 1..MaxVerses :
              \E ns \in [1..k -> 1..MaxVerses], en \in [1..k -> {<<"a">>, <<>>}],
                 ko \in {<<"k">>, <<>>} :
                  doc = NumberedDoc(ns, en, ko)
       \/ \E n \in 1..MaxEnTokens : \E ts \in [1..n -> EnTokens] : doc = GlossDoc(Cat(ts))
       \/ \E en \in DocumentedTexts : doc = GlossDoc(en)
       \/ \E k \in 1..MaxVerses : \E p \in 0..(k + 2), b \in BlankLines :
              doc = InsertLine(NumberedDoc([i \in 1..k |-> i], [i \in 1..k |-> <<"a">>],
                                           <<"k">>), p, b)
    /\ verdict = NoVerdict
    /\ dupFound = <<>>
    /\ DriversIdle

\* tools/verify_chapter.py on the document
VerifyStrict ==
    /\ pc = "verify"
    /\ verdict' = verify_chapter_main(doc)
    /\ pc' = "verified"
    /\ UNCHANGED <<textVars, rawFile, fs, split, build, doc, dupFound, driverVars>>

\* tools/verify/verify_chapter.py on the document
VerifyGloss ==
    /\ pc = "verify"
    /\ verdict' = verify(doc)
    /\ pc' = "verified"
    /\ UNCHANGED <<textVars, rawFile, fs, split, build, doc, dupFound, driverVars>>

\* check_consecutive_duplicate_gloss on the EN field of the document's
\* first verse line
CheckDuplicateGloss ==
    /\ pc = "verify"
    /\ Len(doc) >= 3
    /\ VERSE_RE(doc[3], TRUE) # <<>>
    /\ dupFound' = <<check_consecutive_duplicate_gloss(VERSE_RE(doc[3], TRUE)[1].en)>>
    /\ pc' = "checked"
    /\ UNCHANGED <<textVars, rawFile, fs, split, build, doc, verdict, driverVars>>

\* every verse line of the document has a KO field that is not empty
AllKoFilled(d) ==
    /\ Len(d) >= 3
    /\ \A i \in 3..Len(d) :
          VERSE_RE(d[i], FALSE) # <<>> /\ VERSE_RE(d[i], FALSE)[1].ko # <<>>

\* the document with the KO field of every verse line emptied
EmptyKo(d) ==
    [i \in 1..Len(d) |->
        IF i >= 3 /\ VERSE_RE(d[i], FALSE) # <<>>
        THEN Slice(d[i], 0, Max(KoSplits(d[i], Max(VerseNumEnds(d[i])) + 4, FALSE)) + 4)
        ELSE d[i]]

\* one validator on the fully-filled document and on its EN-only form
VerifyDialects ==
    /\ pc = "verify"
    /\ AllKoFilled(doc)
    /\ \E tool \in {"strict", "gloss"} :
          dialects' = <<[tool   |-> tool,
                         full   |-> IF tool = "strict" THEN verify_chapter_main(doc)
                                    ELSE verify(doc),
                         enOnly |-> IF tool = "strict" THEN verify_chapter_main(EmptyKo(doc))
                                    ELSE verify(EmptyKo(doc))]>>
    /\ pc' = "dialects"
    /\ UNCHANGED <<textVars, rawFile, fs, split, build, doc, verdict, dupFound, gen, batch,
                   fill>>

NextVerify == VerifyStrict \/ VerifyGloss \/ CheckDuplicateGloss \/ VerifyDialects

SpecVerify == InitVerify /\ [][NextVerify]_vars

\* the EN text of the document's first verse line, as the gloss validator
\* reads it
FirstEn == VERSE_RE(doc[3], TRUE)[1].en

\* the verse numbers of the document in file order
VerseNums(d, g) == [i \in 1..(Len(d) - 2) |-> int(VERSE_RE(d[i + 2], g)[1].n)]

\* an EN text passes the lexical rules of the gloss validator
LexicalOK(en) == archaic_rule(en) = <<>> /\ ~check_consecutive_duplicate_gloss(en)

\* every line of the document has the form its validator wants, whatever
\* the verse numbers are
WellFormed(d, g) ==
    /\ Len(d) >= 3
    /\ \A i \in 1..Len(d) : ~IsBlank(d[i])
    /\ IF g THEN HEADER_RE(d[1], TRUE) # <<>> ELSE validate_header(d[1]) = <<>>
    /\ TITLE_RE(d[2], g) # <<>>
    /\ \A i \in 3..Len(d) :
          /\ VERSE_RE(d[i], g) # <<>>
          /\ IF g THEN LexicalOK(VERSE_RE(d[i], g)[1].en) ELSE Count(d[i], "|") = 3

\* C2: a validator accepts a document whose lines are well-formed exactly
\* when its verse numbers in file order are 1, 2, ..., k with k >= 1, and
\* then reports the count k; for tools/verify_chapter.py and for
\* tools/verify/verify_chapter.py.
C2_VerseContinuity ==
    \A g \in {verdict.tool = "gloss"} :
        (verdict.tool \in {"strict", "gloss"} /\ WellFormed(doc, g)) =>
            \A nums \in {VerseNums(doc, g)} :
                /\ verdict.exit = 0 <=> \A i \in 1..Len(nums) : nums[i] = i
                /\ verdict.exit = 0 => verdict.count = Len(nums)
                /\ verdict.exit \in {0, 1}

\* a validator rejected a document of three well-formed verse lines numbered
\* 1, 3, 2: the numbers are complete and distinct, only their order is wrong
C2_Witness ==
    /\ verdict.tool \in {"strict", "gloss"}
    /\ WellFormed(doc, verdict.tool = "gloss")
    /\ Len(doc) = 5
    /\ VerseNums(doc, FALSE) = <<1, 3, 2>>
    /\ verdict.exit = 1

\* the offsets of the occurrences of 'unto' in an EN text
UntoAt(en) == {i \in 0..(Len(en) - 4) : Slice(en, i, i + 4) = Lit_unto}

\* the occurrence of 'unto' at offset i is followed by '(to)'
GlossedTo(en, i) == Clamp(en, i, i + 8) = Lit_unto_to

\* the gloss validator rejected the verse for the archaic rule
ArchaicRejected ==
    /\ verdict.exit = 1
    /\ verdict.out[1].reason \in
           {"archaic rule: must be glossed", "archaic rule: gloss must be (to)"}

\* C3: the gloss validator rejects a verse in which some occurrence of
\* 'unto' is not immediately followed by '(to)', whatever the other
\* occurrences look like, and the archaic rule passes a verse in which every
\* occurrence is written 'unto(to)'.
C3_EveryUntoGlossed ==
    (verdict.tool = "gloss" /\ Len(doc) = 3 /\ VERSE_RE(doc[3], TRUE) # <<>>) =>
        \A en \in {FirstEn} :
            /\ (\E i \in UntoAt(en) : ~GlossedTo(en, i)) => verdict.exit = 1
            /\ (\A i \in UntoAt(en) : GlossedTo(en, i)) => ~ArchaicRejected

\* a letter stands right before or right after the occurrence of 'unto' at
\* offset i: it is part of a longer word
InsideWord(en, i) ==
    \/ i > 0 /\ IsLetter(At(en, i - 1))
    \/ i + 4 < Len(en) /\ IsLetter(At(en, i + 4))

\* C4: a verse whose EN text has 'unto' only inside longer words, and no
\* standalone 'unto', is not rejected by the archaic rule of the gloss
\* validator.
C4_BareWordOnly ==
    (verdict.tool = "gloss" /\ Len(doc) = 3 /\ VERSE_RE(doc[3], TRUE) # <<>>) =>
        \A en \in {FirstEn} :
            (UntoAt(en) # {} /\ \A i \in UntoAt(en) : InsideWord(en, i)) => ~ArchaicRejected

\* two matches of GLOSS_RE carry the same word and the same gloss, compared
\* case-insensitively
SameGloss(a, b) == lower(a.g1) = lower(b.g1) /\ lower(a.g2) = lower(b.g2)

\* C5: check_consecutive_duplicate_gloss reports a failure exactly when some
\* two gloss annotations of the text, adjacent in the match list or not,
\* have the same word and gloss case-insensitively and no letter and no
\* digit strictly between them.
C5_DuplicateGloss ==
    dupFound # <<>> =>
        \A en \in {FirstEn} : \A ms \in {GLOSS_RE(en)} :
            dupFound[1] <=>
                \E i \in 1..Len(ms) : \E j \in (i + 1)..Len(ms) :
                    /\ SameGloss(ms[i], ms[j])
                    /\ \A p \in ms[i].end..(ms[j].start - 1) :
                           ~IsLetter(At(en, p)) /\ ~IsDigit(At(en, p))

\* a gloss repeated in another letter case right behind a comma was reported
C5_Witness ==
    /\ dupFound = <<TRUE>>
    /\ FirstEn = Lit_unto_to \o <<",">> \o <<"U", "n", "t", "o", "(", "T", "O", ")">>

\* C11: a validator rejects every document that holds a blank line, be it
\* empty or whitespace only, before the header, between the records or
\* after the last verse.
C11_BlankLineRejected ==
    (verdict.tool \in {"strict", "gloss"} /\ \E i \in 1..Len(doc) : IsBlank(doc[i])) =>
        verdict.exit = 1

\* C12: a validator accepts a fully-filled document exactly when it accepts
\* the same document with the KO field of every verse emptied; for
\* tools/verify_chapter.py and for tools/verify/verify_chapter.py.
C12_BothDialects ==
    dialects # <<>> => (dialects[1].full.exit = 0 <=> dialects[1].enOnly.exit = 0)

\* a document that is valid but for the EN fields of its verses: no blank
\* line, header and title as the grammar wants them, verse lines of the
\* grammar numbered 1..k
OtherwiseValid(d) ==
    /\ WellFormed(d, FALSE)
    /\ HEADER_RE(d[1], TRUE) # <<>>
    /\ TITLE_RE(d[2], TRUE) # <<>>
    /\ \A i \in 3..Len(d) :
          /\ int(VERSE_RE(d[i], FALSE)[1].n) = i - 2
          /\ LexicalOK(VERSE_RE(d[i], FALSE)[1].en)

\* some verse of the document has an empty EN field
SomeEmptyEn(d) == \E i \in 3..Len(d) : VERSE_RE(d[i], FALSE)[1].en = <<>>

\* C13: a validator accepts a document that is valid but for one or more
\* empty EN fields, and prints a warning.
C13_EmptyEnWarned ==
    (verdict.tool \in {"strict", "gloss"} /\ OtherwiseValid(doc) /\ SomeEmptyEn(doc)) =>
        /\ verdict.exit = 0
        /\ \E i \in 1..Len(verdict.out) : verdict.out[i].tag = "WARN"

\* the failures that cite the number of the offending line
LineReasons ==
    {"Blank line detected", "Verse line format mismatch", "pipe count",
     "Verse keys/order invalid", "Verse key order invalid", "Verse order break",
     "invalid header format", "invalid title format", "invalid verse format",
     "verse continuity error", "archaic rule: must be glossed",
     "archaic rule: gloss must be (to)", "duplicate gloss repeated consecutively"}

\* C14: a validator that rejects a document ends with a non-zero status and
\* prints one line only, which cites the number of the offending line and
\* the reason.
C14_SingleDiagnostic ==
    (verdict.tool \in {"strict", "gloss"} /\ verdict.exit # 0) =>
        /\ Len(verdict.out) = 1
        /\ verdict.out[1].reason \in LineReasons
        /\ verdict.out[1].args # <<>>
        /\ verdict.out[1].args[1] \in 1..Len(doc)

\* the last line a validator printed
LastMsg == verdict.out[Len(verdict.out)]

\* C15: tools/verify_chapter.py rejects a document of well-formed lines
\* whose verse numbers are exactly 1..k, each once, but not in increasing
\* order, and the failure it reports is not 'Missing verse numbers': it is
\* the first-verse failure when the first number is not 1, else the
\* order-break failure.
C15_OutOfOrderDistinct ==
    (verdict.tool = "strict" /\ WellFormed(doc, FALSE)) =>
        \A nums \in {VerseNums(doc, FALSE)} :
            (/\ {nums[i] : i \in 1..Len(nums)} = 1..Len(nums)
             /\ \E i \in 1..Len(nums) : nums[i] # i) =>
                /\ verdict.exit = 1
                /\ LastMsg.tag = "FAIL"
                /\ LastMsg.reason # "Missing verse numbers"
                /\ LastMsg.reason = IF nums[1] # 1 THEN "First verse N"
                                    ELSE "Verse order break"

\* tools/verify_chapter.py reported an order break between lines 3 and 4 of
\* a document numbered 1, 3, 2
C15_Witness ==
    /\ verdict.tool = "strict"
    /\ Len(doc) = 5
    /\ WellFormed(doc, FALSE)
    /\ VerseNums(doc, FALSE) = <<1, 3, 2>>
    /\ LastMsg = Msg("FAIL", "Verse order break", <<3, 1, 4, 3>>)

-----------------------------------------------------------------------------
(* Pipeline run: split_kjv_raw, build_chapter_en_only, tools/verify_chapter *)

MaxRawLines == 2

Tok_2_1 == <<"2", ":", "1">>

PipeTokens == {Tok_1_1, Tok_1_2, Tok_2_1, <<"a">>, <<"|">>}

\* raw lines of up to two tokens
PipeLines ==
    {Cat(ts) : ts \in UNION {[1..n -> PipeTokens] : n \in 0..2}}

\* the raw input the pipeline is documented with
Raw_Genesis ==
    <<<<"1", ":", "1", " ", "I", "n", " ", "t", "h", "e", " ", "b", "e",
      "g", "i", "n", "n", "i", "n", "g">>,
      <<"G", "o", "d", " ", "c", "r", "e", "a", "t", "e", "d", " ", "t",
      "h", "e">>,
      <<"1", ":", "2", " ", "A", "n", "d", " ", "t", "h", "e", " ", "e",
      "a", "r", "t", "h", " ", "w", "a", "s">>>>

\* the book codes the programs are called with
BookArgs == {Code_gen, <<"E", "x", "o", " ">>, <<"z", "z", "z">>}

\* the input is up to MaxRawLines raw lines, or the documented input
InitPipe ==
    /\ pc = "split"
    /\ ParseIdle
    /\ scanLine = <<>>
    /\ marks = NoMarks
    /\ WrapIdle
    /\ \/ \E n \in 0..MaxRawLines : rawFile \in [1..n -> PipeLines]
       \/ rawFile = Raw_Genesis
    /\ fs = EmptyDict
    /\ split = NoRun
    /\ build = NoBuild
    /\ doc = <<>>
    /\ verdict = NoVerdict
    /\ dupFound = <<>>
    /\ DriversIdle

\* split_kjv_raw.py <raw> gen; chapters keeps what parse_raw returned
SplitMain ==
    /\ pc = "split"
    /\ \E r \in {split_main(rawFile, Code_gen, fs)} :
          /\ split' = r.run
          /\ fs' = r.fs
    /\ chapters' = parse_raw(rawFile).chapters
    /\ pc' = "build"
    /\ UNCHANGED <<line, nread, cur_key, buf, segs, kjv, heads, scanLine, marks,
                   wrapIn, wrapOut, rawFile, build, doc, verdict, dupFound,
                   driverVars>>

\* build_chapter_en_only.py <bookcode> <chapter>; build keeps its arguments
BuildMain ==
    /\ pc = "build"
    /\ \E arg \in BookArgs, chapter \in 1..2 :
          \E r \in {build_main(arg, chapter, fs)} :
              /\ build' = [exit |-> r.run.exit, out |-> r.run.out,
                           bookcode |-> lower(strip(arg)), chapter |-> chapter]
              /\ fs' = r.fs
              /\ pc' = IF r.run.exit = 0 THEN "built" ELSE "build_failed"
    /\ UNCHANGED <<textVars, rawFile, split, doc, verdict, dupFound, driverVars>>

\* tools/verify_chapter.py on the file build_chapter_en_only wrote
VerifyBuilt ==
    /\ pc = "built"
    /\ doc' = fs[chapter_path(Dir_final_en_only, build.bookcode, build.chapter)]
    /\ verdict' = verify_chapter_main(doc')
    /\ pc' = "verified"
    /\ UNCHANGED <<textVars, rawFile, fs, split, build, dupFound, driverVars>>

NextPipe == SplitMain \/ BuildMain \/ VerifyBuilt

SpecPipe == InitPipe /\ [][NextPipe]_vars

\* C1: when split_kjv_raw and then build_chapter_en_only succeed for a
\* chapter, tools/verify_chapter.py accepts the document written and the
\* verse count it reports is the number of verse records of that chapter.
C1_PipelineAccepted ==
    (pc = "verified" /\ split.exit = 0 /\ build.exit = 0) =>
        /\ verdict.exit = 0
        /\ verdict.count = Cardinality(DOMAIN chapters[build.chapter])

-----------------------------------------------------------------------------
(* Emitter run: split_kjv_raw, build_chapter_en_only or generate_chapter   *)
(* on input that may be unusable                                           *)

MaxEmitLines == 2

\* raw lines for split_kjv_raw
EmitRawLines ==
    {<<"1", ":", "1", " ", "a">>, <<"1", ":", "1">>, <<"1", ":", "2", " ", "a">>, <<"1", ":", "3", " ", "a">>, <<"2", ":", "1", " ", "a">>, <<"2", ":", "2", " ", "a">>, <<"a">>}

\* lines of an out_raw file written by hand
OutRawLines ==
    {<<"1", ":", "1", " ", "a">>, <<"1", ":", "2", " ", "a">>, <<"1", ":", "3", " ", "a">>, <<"2", ":", "1", " ", "a">>, <<"1", ":", "1", " ">>, <<"1", ":", "1", " ", " ", "b", " ">>, <<"x">>}

\* the locators and texts of the lines of kjv_66.txt
SrcVerses ==
    {[chap |-> 1, verse |-> 1, text |-> <<"a">>], [chap |-> 1, verse |-> 2, text |-> <<"a">>],
     [chap |-> 1, verse |-> 3, text |-> <<"a">>], [chap |-> 2, verse |-> 1, text |-> <<"a">>],
     [chap |-> 1, verse |-> 1, text |-> <<>>]}

Code_rut == <<"r", "u", "t">>

\* a book code that neither BOOKNAME_MAP nor BOOK_NAME_MAP has
Code_zzz == <<"z", "z", "z">>

\* kjv_66.txt: lines of one book as make_kjv_66 writes them, a line of the
\* book of Ruth or a line that is no verse line
SrcLines(book) ==
    {kjv_out_line(book, v.chap, v.verse, v.text) : v \in SrcVerses}
        \cup {kjv_out_line(Code_rut, 1, 1, <<"a">>), <<"x">>}

\* the run is one of split_kjv_raw on a raw file, build_chapter_en_only on
\* an out_raw file written by hand, generate_chapter on a kjv_66.txt; the
\* kjv_66.txt is missing, or holds any lines of Genesis, or holds verses
\* 1..k of chapter 1 of any one book or of a book no table has
InitEmit ==
    /\ ParseIdle
    /\ scanLine = <<>>
    /\ marks = NoMarks
    /\ WrapIdle
    /\ \/ /\ pc = "split"
          /\ \E n \in 0..MaxEmitLines : rawFile \in [1..n -> EmitRawLines]
          /\ fs = EmptyDict
       \/ /\ pc = "build"
          /\ rawFile = <<>>
          /\ \E n \in 0..MaxEmitLines : \E lns \in [1..n -> OutRawLines] :
                \E code \in {Code_gen, Code_zzz} :
                    fs = (chapter_path(Dir_out_raw, code, 1) :> lns)
       \/ /\ pc = "generate"
          /\ rawFile = <<>>
          /\ \/ fs = EmptyDict
             \/ \E n \in 0..MaxEmitLines : \E lns \in [1..n -> SrcLines(Code_gen)] :
                  fs = (Path_kjv_66 :> lns)
             \/ \E book \in DOMAIN BOOK_NAME_MAP \cup {Code_zzz} : \E k \in 1..MaxEmitLines :
                  fs = (Path_kjv_66 :>
                           [i \in 1..k |-> kjv_out_line(book, 1, i, <<"a">>)])
    /\ split = NoRun
    /\ build = NoBuild
    /\ doc = <<>>
    /\ verdict = NoVerdict
    /\ dupFound = <<>>
    /\ DriversIdle

\* the book codes generate_chapter is called with: those kjv_66.txt names,
\* one with a capital and a space around it, and one no table has
GenArgs(files) ==
    (IF Path_kjv_66 \in DOMAIN files
     THEN {gen_LINE_RE(files[Path_kjv_66][i])[1].g1 :
              i \in {i \in 1..Len(files[Path_kjv_66]) :
                        gen_LINE_RE(files[Path_kjv_66][i]) # <<>>}}
     ELSE {})
        \cup {<<"G", "e", "n", " ">>, <<"z", "z", "z">>}

\* generate_chapter.py <bookcode> <chapter>; gen keeps its arguments, doc
\* the file it wrote and verdict what the verifier it ran said
GenMain ==
    /\ pc = "generate"
    /\ \E arg \in GenArgs(fs), chapter \in 1..2 :
          \E r \in {generate_main(arg, chapter, fs)} :
              /\ gen' = [exit |-> r.run.exit, out |-> r.run.out,
                         bookcode |-> lower(strip(arg)), chapter |-> chapter]
              /\ fs' = r.fs
              /\ verdict' = r.verdict
              /\ doc' = IF r.fs = fs THEN <<>>
                        ELSE r.fs[Dir_inbox \o out_filename(
                                     BOOK_NAME_MAP[lower(strip(arg))], chapter)]
    /\ pc' = "generated"
    /\ UNCHANGED <<textVars, rawFile, split, build, dupFound, dialects, batch, fill>>

NextEmit == SplitMain \/ BuildMain \/ GenMain

SpecEmit == InitEmit /\ [][NextEmit]_vars

\* no file has been written to directory dir
NothingIn(dir) == \A p \in DOMAIN fs : ~StartsWith(p, dir)

\* the set of verse numbers is empty or its minimum is not 1
Unusable(vs) == vs = {} \/ Min(vs) # 1

\* the verse numbers build_chapter_en_only parses from its input file
BuildParsed ==
    LET path == chapter_path(Dir_out_raw, build.bookcode, build.chapter)
    IN  IF path \in DOMAIN fs
        THEN {int(LINE_RE(fs[path][i])[1].g2) :
                 i \in {i \in 1..Len(fs[path]) : LINE_RE(fs[path][i]) # <<>>}}
        ELSE {}

\* the verse numbers, in file order, of the lines of kjv_66.txt that are of
\* the book and chapter generate_chapter was asked for
GenParsed ==
    IF Path_kjv_66 \in DOMAIN fs
    THEN LET kept == SelectSeq(fs[Path_kjv_66], LAMBDA ln :
                         /\ gen_LINE_RE(ln) # <<>>
                         /\ gen_LINE_RE(ln)[1].g1 = gen.bookcode
                         /\ int(gen_LINE_RE(ln)[1].g2) = gen.chapter)
         IN  [i \in 1..Len(kept) |-> int(gen_LINE_RE(kept[i])[1].g3)]
    ELSE <<>>

\* C16: each emitter aborts the chapter with a failure and writes no output
\* file for it when the set of verses parsed for the chapter is empty or its
\* minimum is not 1: split_kjv_raw (validate_chapter), build_chapter_en_only
\* main and generate_chapter (ensure_contiguous).
C16_AbortsUnusableChapter ==
    /\ split.exit # -1 =>
          \A c \in DOMAIN chapters :
              Unusable(DOMAIN chapters[c]) =>
                  /\ split.exit = 1
                  /\ chapter_path(Dir_out_raw, Code_gen, c) \notin DOMAIN fs
    /\ build.exit # -1 =>
          (Unusable(BuildParsed) => build.exit = 1 /\ NothingIn(Dir_final_en_only))
    /\ gen.exit # -1 =>
          \A nums \in {GenParsed} :
              Unusable({nums[i] : i \in 1..Len(nums)}) =>
                  gen.exit = 1 /\ NothingIn(Dir_inbox)

\* build_chapter_en_only was given an out_raw file whose only verse is
\* verse 2: it failed on the first verse and wrote nothing
C16_Witness ==
    /\ pc = "build_failed"
    /\ split = NoRun
    /\ BuildParsed = {2}
    /\ build.out = <<Msg("FAIL", "First verse", <<2>>)>>
    /\ NothingIn(Dir_final_en_only)

\* the chapters parse_raw returned that validate_chapter fails
BadChapters == {c \in DOMAIN chapters : validate_chapter(c, chapters[c]) # <<>>}

\* the chapters whose tools/out_raw file is there
OutRawChapters ==
    {c \in 1..999 : chapter_path(Dir_out_raw, Code_gen, c) \in DOMAIN fs}

\* C24: split_kjv_raw main writes the files of the chapters in ascending
\* order, each after its chapter passed validate_chapter: when some chapter
\* fails, the run ends with status 1 and the failure of the smallest failing
\* chapter c, and the files written are exactly those of the parsed chapters
\* smaller than c; when none fails, every parsed chapter has its file. The
\* runs are those where parse_raw returned a chapter.
C24_SplitWritesInOrder ==
    (split.exit # -1 /\ ~parse_raw_raises(rawFile) /\ DOMAIN chapters # {}) =>
        \A bad \in {BadChapters} :
            /\ \A p \in DOMAIN fs :
                  StartsWith(p, Dir_out_raw) =>
                      \E c \in DOMAIN chapters :
                          /\ p = chapter_path(Dir_out_raw, Code_gen, c)
                          /\ fs[p] = out_raw_file(c, chapters[c])
            /\ IF bad = {}
               THEN split.exit = 0 /\ OutRawChapters = DOMAIN chapters
               ELSE /\ split.exit = 1
                    /\ split.out = validate_chapter(Min(bad), chapters[Min(bad)])
                    /\ OutRawChapters = {c \in DOMAIN chapters : c < Min(bad)}

\* chapter 1 passed and chapter 2, which starts at verse 2, failed: the file
\* of chapter 1 is the only one written
C24_Witness ==
    /\ split.exit = 1
    /\ DOMAIN chapters = {1, 2}
    /\ BadChapters = {2}
    /\ split.out = <<Msg("FAIL", "first verse", <<2, 2>>)>>
    /\ DOMAIN fs = {chapter_path(Dir_out_raw, Code_gen, 1)}

\* C23: when the book code is in neither key set of its program's book-name
\* table, build_chapter_en_only and generate_chapter end with status 1 and
\* the unknown-bookcode message alone, whatever input file is there for the
\* code, and write no output file.
C23_UnknownBookcodeFatal ==
    /\ (build.exit # -1 /\ build.bookcode \notin DOMAIN BOOKNAME_MAP) =>
          /\ build.exit = 1
          /\ build.out = <<Msg("FAIL", "Unknown bookcode", <<>>)>>
          /\ NothingIn(Dir_final_en_only)
    /\ (gen.exit # -1 /\ gen.bookcode \notin DOMAIN BOOK_NAME_MAP) =>
          /\ gen.exit = 1
          /\ gen.out = <<Msg("FAIL", "unknown bookcode", <<>>)>>
          /\ NothingIn(Dir_inbox)

\* build_chapter_en_only was called for zzz 1 while tools/out_raw/zzz_001.txt
\* held verse 1 of chapter 1: it failed on the book code and wrote nothing
C23_Witness ==
    /\ pc = "build_failed"
    /\ build.bookcode = Code_zzz
    /\ build.chapter = 1
    /\ chapter_path(Dir_out_raw, Code_zzz, 1) \in DOMAIN fs
    /\ BuildParsed = {1}
    /\ build.out = <<Msg("FAIL", "Unknown bookcode", <<>>)>>
    /\ DOMAIN fs = {chapter_path(Dir_out_raw, Code_zzz, 1)}

\* C19: for every book code of BOOK_NAME_MAP and every chapter whose verses
\* in kjv_66.txt are numbered 1..k, each once, generate_chapter writes the
\* chapter file, the verifier it runs accepts the file, and generate_chapter
\* exits with status 0.
C19_GeneratedAccepted ==
    (pc = "generated" /\ gen.bookcode \in DOMAIN BOOK_NAME_MAP) =>
        \A nums \in {GenParsed} :
            (nums # <<>> /\ {nums[i] : i \in 1..Len(nums)} = 1..Len(nums)) =>
                /\ ~NothingIn(Dir_inbox)
                /\ verdict.tool = "strict"
                /\ verdict.exit = 0
                /\ verdict.count = Len(nums)
                /\ gen.exit = 0

-----------------------------------------------------------------------------
(* Batch run: batch_build_book.py over a range of chapters of Genesis in a  *)
(* working tree whose tools/out_raw holds some chapter files                *)

MaxChapters == 2

\* a line of a tools/out_raw file, as split_kjv_raw writes it
BatchLine(c, v) == str(c) \o <<":">> \o str(v) \o <<" ", "a">>

\* what tools/out_raw may hold for a chapter: one verse, two verses, a
\* chapter that starts at verse 2, a verse that comes twice
BatchRaw(c) ==
    {<<BatchLine(c, 1)>>, <<BatchLine(c, 1), BatchLine(c, 2)>>, <<BatchLine(c, 2)>>,
     <<BatchLine(c, 1), BatchLine(c, 1)>>}

\* the line of a response that gives verse n a Korean text
KoLine(n, ko) == Lit_KO_N \o str(n) \o Lit_KO \o ko

\* how the translation service answers the calls of one command: the first
\* call dies; it gives every verse at once; it gives verse 1 and the retry
\* dies; it gives verse 1 and verse 2 to the retry
Replies ==
    {<<>>,
     <<<<<<KoLine(1, <<"U+B9D0">>), KoLine(2, <<"U+B9D0">>)>>>>>>,
     <<<<<<KoLine(1, <<"U+B9D0">>)>>>>>>,
     <<<<<<KoLine(1, <<"U+B9D0">>)>>>>, <<<<KoLine(2, <<"U+B9D0">>)>>>>>>}

InitBatch ==
    /\ ParseIdle
    /\ scanLine = <<>>
    /\ marks = NoMarks
    /\ WrapIdle
    /\ pc = "batch"
    /\ rawFile = <<>>
    /\ \E have \in SUBSET (1..MaxChapters) :
          \E content \in [have -> UNION {BatchRaw(c) : c \in 1..MaxChapters}] :
              /\ \A c \in have : content[c] \in BatchRaw(c)
              /\ fs = [p \in {chapter_path(Dir_out_raw, Code_gen, c) : c \in have} |->
                          content[Only({c \in have :
                                          chapter_path(Dir_out_raw, Code_gen, c) = p})]]
    /\ split = NoRun
    /\ build = NoBuild
    /\ doc = <<>>
    /\ verdict = NoVerdict
    /\ dupFound = <<>>
    /\ dialects = <<>>
    /\ gen = NoGen
    /\ fill = NoFill
    /\ \E start \in 1..MaxChapters, end \in 1..MaxChapters :
          batch = Batch("start", Code_gen, start, end, 0, -1, <<>>, <<>>)

batchFrame == <<textVars, rawFile, split, dupFound, dialects, gen, fill, pc>>

\* main up to the loop over the chapters
BatchStart ==
    /\ batch.pc = "start"
    /\ batch' = batch_precheck(batch, fs)
    /\ UNCHANGED <<batchFrame, fs, build, doc, verdict>>

\* run([... build_chapter_en_only.py, bookcode, chap])
BatchBuild ==
    /\ batch.pc = "build"
    /\ \E r \in {build_main(batch.bookcode, batch.chap, fs)} :
          /\ fs' = r.fs
          /\ build' = [exit |-> r.run.exit, out |-> r.run.out,
                       bookcode |-> batch.bookcode, chapter |-> batch.chap]
          /\ batch' = batch_run(batch, "build", r.run.exit, "fill")
    /\ UNCHANGED <<batchFrame, doc, verdict>>

\* run([... fill_ko_with_openai.py, bookcode, chap, model])
BatchFill ==
    /\ batch.pc = "fill"
    /\ \E replies \in Replies :
          \E r \in {fill_main(batch.bookcode, batch.chap, fs, replies)} :
              /\ fs' = r.fs
              /\ batch' = batch_run(batch, "fill", r.run.exit, "verify")
    /\ UNCHANGED <<batchFrame, build, doc, verdict>>

\* run([... verify_chapter.py, final_path]), and the end of the loop
BatchVerify ==
    /\ batch.pc = "verify"
    /\ \E path \in {chapter_path(Dir_final, batch.bookcode, batch.chap)} :
          \E v \in {verify_chapter_file(path, fs)} :
              /\ doc' = IF path \in DOMAIN fs THEN fs[path] ELSE <<>>
              /\ verdict' = v
              /\ batch' = batch_run(batch, "verify", v.exit,
                                    IF batch.chap = batch.end THEN "done" ELSE "build")
    /\ UNCHANGED <<batchFrame, fs, build>>

NextBatch == BatchStart \/ BatchBuild \/ BatchFill \/ BatchVerify

SpecBatch == InitBatch /\ [][NextBatch]_vars

\* the steps run for chapter c, in order
StepsOf(c) ==
    [i \in 1..Len(SelectSeq(batch.ran, LAMBDA e : e.chap = c)) |->
        SelectSeq(batch.ran, LAMBDA e : e.chap = c)[i].cmd]

\* C18: once the batch driver has ended, a step that failed for one chapter
\* has not kept the later chapters of the requested range from being
\* processed: each of them has had its build step run.
C18_FailureDoesNotBlock ==
    batch.pc \in {"done", "failed"} =>
        \A i \in 1..Len(batch.ran) :
            batch.ran[i].rc # 0 =>
                \A c \in (batch.ran[i].chap + 1)..batch.end : StepsOf(c) # <<>>

-----------------------------------------------------------------------------
(* Raw file run: parse_raw consumes the lines of one raw file, in order     *)

MaxFileLines == 3

\* a line with no marker, one with a marker in the middle, a marker line,
\* a marker line with no text, an empty line and a line of whitespace
FileLines ==
    {<<"a">>, <<"a", " ">> \o Tok_1_1 \o <<" ", "b">>, Tok_1_1 \o <<" ", "a">>,
     Tok_1_2, <<>>, <<" ">>}

\* a marker line whose chapter number has one digit more than int() takes
Line_LongChapter == [i \in 1..(INT_MAX_STR_DIGITS + 1) |-> "1"] \o <<":", "1", " ", "a">>

\* the raw files: any lines of FileLines, and the long marker line alone,
\* after a verse line and before one
RawFiles_long ==
    {<<Line_LongChapter>>, <<Tok_1_1 \o <<" ", "a">>, Line_LongChapter>>,
     <<Line_LongChapter, Tok_1_2>>}

InitFile ==
    /\ pc = "parse_file"
    /\ ParseIdle
    /\ scanLine = <<>>
    /\ marks = NoMarks
    /\ WrapIdle
    /\ \/ \E n \in 0..MaxFileLines : rawFile \in [1..n -> FileLines]
       \/ rawFile \in RawFiles_long
    /\ fs = EmptyDict
    /\ split = NoRun
    /\ build = NoBuild
    /\ doc = <<>>
    /\ verdict = NoVerdict
    /\ dupFound = <<>>
    /\ DriversIdle

fileFrame == <<kjv, heads, scanLine, marks, wrapIn, wrapOut, fileVars>>

\* the loop body of parse_raw on the next line of the file
ParseFileLine ==
    /\ pc = "parse_file"
    /\ nread < Len(rawFile)
    /\ \E ln \in {rawFile[nread + 1]} :
        /\ line' = ln
        /\ IF parse_line_raises(ln)
           THEN pc' = "raised" /\ SetAcc(Acc)
           ELSE pc' = pc /\ SetAcc(parse_line(Acc, ln))
    /\ nread' = nread + 1
    /\ UNCHANGED fileFrame

\* the lines are exhausted: the final flush() and `return chapters`
ParseFileEnd ==
    /\ pc = "parse_file"
    /\ nread = Len(rawFile)
    /\ SetAcc(flush(Acc))
    /\ pc' = "parsed"
    /\ UNCHANGED <<line, nread, fileFrame>>

NextFile == ParseFileLine \/ ParseFileEnd

SpecFile == InitFile /\ [][NextFile]_vars

\* C21: parse_raw never raises: at every point of its run it is consuming
\* the lines, having taken one step for each line consumed so far, or it has
\* returned after one step for every line of the input.
C21_TotalAndTerminating ==
    /\ pc \in {"parse_file", "parsed"}
    /\ nread <= Len(rawFile)
    /\ pc = "parsed" => nread = Len(rawFile)

-----------------------------------------------------------------------------
(* Source file run: make_kjv_66 main consumes the lines of one source file  *)
(* that names several books                                                 *)

MaxBookLines == 5

\* the lines of the source file: three keys of BOOKMAP, two verse lines and
\* a line without a marker
BookLines ==
    {Head_Ezra, Head_Joel, Head_Kings1, Tok_1_1 \o <<" ", "a">>,
     Tok_1_2 \o <<" ", "b">>, <<"c">>}

InitBooks ==
    /\ pc = "kjv_file"
    /\ ParseIdle
    /\ scanLine = <<>>
    /\ marks = NoMarks
    /\ WrapIdle
    /\ \E n \in 0..MaxBookLines : rawFile \in [1..n -> BookLines]
    /\ fs = EmptyDict
    /\ split = NoRun
    /\ build = NoBuild
    /\ doc = <<>>
    /\ verdict = NoVerdict
    /\ dupFound = <<>>
    /\ DriversIdle

booksFrame == <<cur_key, buf, chapters, segs, heads, scanLine, marks, wrapIn, wrapOut,
                fileVars>>

\* the loop body of main on the next line of the file
KjvFileLine ==
    /\ pc = "kjv_file"
    /\ nread < Len(rawFile)
    /\ line' = rawFile[nread + 1]
    /\ kjv' = kjv_line(kjv, rawFile[nread + 1])
    /\ nread' = nread + 1
    /\ UNCHANGED <<pc, booksFrame>>

\* the end of the file: the final flush
KjvFileEnd ==
    /\ pc = "kjv_file"
    /\ nread = Len(rawFile)
    /\ kjv' = kjv_flush(kjv)
    /\ pc' = "kjv_done"
    /\ UNCHANGED <<line, nread, booksFrame>>

NextBooks == KjvFileLine \/ KjvFileEnd

SpecBooks == InitBooks /\ [][NextBooks]_vars

\* the lines among the first k of the file that are keys of BOOKMAP
HeadingsRead(k) == {i \in 1..k : strip(rawFile[i]) \in DOMAIN BOOKMAP}

\* the book of the heading read last among the first k lines, None before
\* the first heading
BookAt(k) ==
    IF HeadingsRead(k) = {} THEN None
    ELSE BOOKMAP[strip(rawFile[Max(HeadingsRead(k))])]

\* no line from the heading read last up to line k has a marker
NoMarkerSinceHeading(k) ==
    \A i \in (IF HeadingsRead(k) = {} THEN 1 ELSE Max(HeadingsRead(k)))..k :
        CV_RE(strip(rawFile[i])) = <<>>

\* C25: every step of make_kjv_66 main on a line of the file keeps to this:
\* a line that is a key of BOOKMAP makes its book the current one and
\* leaves no verse open; every output line the step appends carries the book
\* of the heading read last before the line; and while no marker has come
\* since the heading read last, no verse is open and no text is kept, so
\* marker-less lines there go to no verse.
C25_HeadingResets ==
    [][(pc = "kjv_file" /\ nread' = nread + 1) =>
          /\ strip(line') \in DOMAIN BOOKMAP =>
                /\ kjv'.current_book = BOOKMAP[strip(line')]
                /\ kjv'.cur_chap = None
                /\ kjv'.cur_verse = None
                /\ kjv'.cur_parts = <<>>
          /\ \A i \in (Len(kjv.out) + 1)..Len(kjv'.out) :
                /\ BookAt(nread) # None
                /\ StartsWith(kjv'.out[i], BookAt(nread) \o <<"\t">>)
          /\ NoMarkerSinceHeading(nread') =>
                /\ kjv'.cur_verse = None
                /\ kjv'.cur_parts = <<>>]_vars

-----------------------------------------------------------------------------
(* Fill run: fill_ko_with_openai.py gen 1 on an EN-only chapter file, the   *)
(* translation service answering each request in any way                    *)

MaxFillVerses == 2

MaxReplyLines == 2

Path_fill_in == chapter_path(Dir_final_en_only, Code_gen, 1)

Path_fill_out == chapter_path(Dir_final, Code_gen, 1)

\* the EN text of the i-th verse line of the input
FillEn(i) == <<"e">> \o str(i)

\* the EN-only chapter file whose verse lines are numbered ns, in this order
FillDoc(ns) ==
    <<Header_gen_1, Title_gen_1>>
        \o [i \in 1..Len(ns) |-> verse_line(ns[i], FillEn(i), <<>>)]

\* a Korean text, and one that holds the field separator of the format
Ko_plain == <<"U+B9D0">>

Ko_piped == <<"U+B9D0">> \o Lit_KO \o <<"U+AE00">>

\* the lines of a response: a translation of verse 1, 2 or 3, an empty one,
\* one with the separator in it, and a line that is no KO line
ReplyLines ==
    {KoLine(n, Ko_plain) : n \in 1..3}
        \cup {KoLine(1, <<>>), KoLine(1, Ko_piped), <<"x">>}

\* what call_openai comes to: it dies, or it returns up to MaxReplyLines lines
FillReplies ==
    {<<>>} \cup {<<lns>> : lns \in UNION {[1..n -> ReplyLines] : n \in 0..MaxReplyLines}}

\* the replies with what main parses of each
ParsedReply == [reply \in FillReplies |-> reply_parsed(reply)]

\* the input file is missing, is too short, or holds up to MaxFillVerses
\* verse lines numbered from 0..3 in any order
InitFill ==
    /\ pc = "fill"
    /\ ParseIdle
    /\ scanLine = <<>>
    /\ marks = NoMarks
    /\ WrapIdle
    /\ rawFile = <<>>
    /\ \/ fs = EmptyDict
       \/ \E n \in 0..MaxFillVerses : \E ns \in [1..n -> 0..3] :
             fs = (Path_fill_in :> FillDoc(ns))
    /\ split = NoRun
    /\ build = NoBuild
    /\ doc = <<>>
    /\ verdict = NoVerdict
    /\ dupFound = <<>>
    /\ DriversIdle

fillFrame == <<pc, textVars, rawFile, split, build, doc, verdict, dupFound, dialects,
               gen, batch>>

\* main up to the first request
FillStart ==
    /\ pc = "fill"
    /\ fill.at = "idle"
    /\ fill' = fill_start(Code_gen, 1, fs)
    /\ UNCHANGED <<fillFrame, fs>>

\* a request is answered; main runs on to the next request or to its end
FillReply ==
    /\ pc = "fill"
    /\ fill.at = "call"
    /\ \E reply \in FillReplies :
          \E r \in {fill_answered(fill, fs, ParsedReply[reply])} :
              /\ fill' = r.fill
              /\ fs' = r.fs
    /\ UNCHANGED fillFrame

NextFill == FillStart \/ FillReply

SpecFill == InitFill /\ [][NextFill]_vars

\* the (n, en) pairs of the verse lines of a chapter file, in file order
FileVerses(lns) ==
    [i \in 1..(Len(lns) - 2) |->
        Only({[v |-> int(m[1].n), txt |-> m[1].en] : m \in {VERSE_RE(lns[i + 2], FALSE)}})]

\* the numbers in 1..max_n, max_n the largest verse number main read from
\* the input, that ko_map has no text for
StillMissing(ko_map) ==
    {n \in 1..Max({fill.verses[i].v : i \in 1..Len(fill.verses)}) : n \notin DOMAIN ko_map}

\* the requests of one step of the protocol: the first request names every
\* verse of the input; at most 3 more follow; a new one names exactly the
\* numbers of lacking, which is not empty; none is made when it is empty
RetryStep(lacking) ==
    /\ fill.requests[1].kind = "all"
    /\ fill.requests[1].nums = [i \in 1..Len(fill.verses) |-> fill.verses[i].v]
    /\ Len(fill'.requests) <= 4
    /\ Len(fill'.requests) \in {Len(fill.requests), Len(fill.requests) + 1}
    /\ Len(fill'.requests) > Len(fill.requests) =>
          \A new \in {fill'.requests[Len(fill'.requests)]} :
              /\ new.kind = "missing"
              /\ new.nums = sorted(lacking)
              /\ lacking # {}
    /\ lacking = {} => fill'.requests = fill.requests

\* the last request was not answered: call_openai ended the run
CallDied(f) ==
    /\ f.at = "failed"
    /\ f.out = <<Msg("FAIL", "OpenAI API request failed", <<>>)>>

C26_OnlyKoChanges ==
    Path_fill_out \in DOMAIN fs =>
        \A src \in {fs[Path_fill_in]}, dst \in {fs[Path_fill_out]} :
            /\ dst[1] = src[1]
            /\ dst[2] = src[2]
            /\ Len(dst) = Len(src)
            /\ \A i \in 3..Len(dst) : VERSE_RE(dst[i], FALSE) # <<>>
            /\ FileVerses(dst) = sort_verses(FileVerses(src))
            /\ \A i \in 3..Len(dst) : VERSE_RE(dst[i], FALSE)[1].ko # <<>>

=============================================================================
